---- MODULE Spec2Model ----
(***************************************************************************)
(* Import reconciliation engine of the Jazler database editor:            *)
(* ImportService (preview_import / execute_import / clear_cache) over an  *)
(* inventory store (snDatabase), an artist directory (snArtists) and the  *)
(* normalization utilities of ImportParser.                               *)
(*                                                                         *)
(* Texts (paths, names) are sequences of one-character strings so that    *)
(* lower-casing, trimming, separator conversion and prefix replacement    *)
(* are computed, not assumed.                                             *)
(***************************************************************************)
EXTENDS Integers, Sequences, FiniteSets, TLC

(***************************************************************************)
(* Bounds of the model                                                     *)
(***************************************************************************)
\* longest list of files handed to one preview_import (= longest batch)
MaxFiles == 2
\* largest number of candidates handed to execute_import in one run
MaxProcessed == 2
\* largest number of failing store reads during one preview_import
MaxReadFailures == 1

(***************************************************************************)
(* Python values                                                           *)
(***************************************************************************)
\* Python None for an Optional[int]
None == 0 - 2
\* Python None for an Optional[str] holding a text
NoneText == <<"None">>
\* Python None for user_decision
NoDecision == "None"
\* in the log of store writes: the call raised instead of returning
Raised == 0 - 3

\* truth value of an Optional[int] in `if x:` / `if not x:`
TruthyInt(x) == x # None /\ x # 0
\* truth value of an Optional[str] in `if s:`
TruthyText(s) == s # NoneText /\ s # <<>>

(***************************************************************************)
(* str methods used by the normalization utilities                         *)
(***************************************************************************)
UpperChars == <<"A","B","C","D","E","F","G","H","I","J","K","L","M",
                "N","O","P","Q","R","S","T","U","V","W","X","Y","Z">>
LowerChars == <<"a","b","c","d","e","f","g","h","i","j","k","l","m",
                "n","o","p","q","r","s","t","u","v","w","x","y","z">>

\* str.lower() on one character
LowerOf(c) ==
    IF \E i \in 1..Len(UpperChars) : UpperChars[i] = c
    THEN LowerChars[CHOOSE i \in 1..Len(UpperChars) : UpperChars[i] = c]
    ELSE c

\* str.lower()
Lower(s) == [i \in 1..Len(s) |-> LowerOf(s[i])]

\* characters str.strip() and the regex class \s treat as whitespace
IsSpace(c) == c \in {" ", "\t"}

\* str.lstrip()
RECURSIVE LStrip(_)
LStrip(s) ==
    IF s = <<>> THEN <<>>
    ELSE IF IsSpace(Head(s)) THEN LStrip(Tail(s)) ELSE s

\* str.rstrip()
RECURSIVE RStrip(_)
RStrip(s) ==
    IF s = <<>> THEN <<>>
    ELSE IF IsSpace(s[Len(s)]) THEN RStrip(SubSeq(s, 1, Len(s) - 1)) ELSE s

\* str.strip()
Strip(s) == RStrip(LStrip(s))

\* re.sub(r'\s+', ' ', s): every maximal run of whitespace becomes one space
RECURSIVE CollapseWs(_)
CollapseWs(s) ==
    IF s = <<>> THEN <<>>
    ELSE IF IsSpace(Head(s))
         THEN <<" ">> \o CollapseWs(LStrip(s))
         ELSE <<Head(s)>> \o CollapseWs(Tail(s))

\* str.replace('/', '\\')
ReplaceSlash(s) == [i \in 1..Len(s) |-> IF s[i] = "/" THEN "\\" ELSE s[i]]

\* str.startswith(prefix)
StartsWith(s, prefix) ==
    /\ Len(prefix) <= Len(s)
    /\ SubSeq(s, 1, Len(prefix)) = prefix

\* ImportParser.normalize_for_comparison
normalize_for_comparison(text) ==
    IF ~TruthyText(text) THEN <<>>
    ELSE CollapseWs(Lower(Strip(text)))

\* ImportParser.normalize_path
normalize_path(path) ==
    IF ~TruthyText(path) THEN <<>>
    ELSE Strip(ReplaceSlash(Lower(path)))

\* f"{artist}|||{title}" over the two normalized texts
ArtistTitleKey(artist, title) ==
    normalize_for_comparison(artist) \o <<"|","|","|">> \o normalize_for_comparison(title)

(***************************************************************************)
(* ImportParser: metadata from tags and file name                          *)
(***************************************************************************)
\* ImportParser.SEPARATOR
SEPARATOR == <<" ", "-", " ">>
\* ImportParser.__init__ defaults
fallback_artist == <<"U","n","k","n","o","w","n">>
fallback_title == <<"U","n","k","n","o","w","n">>

Digits == <<"0","1","2","3","4","5","6","7","8","9">>
IsDigit(c) == \E i \in 1..10 : Digits[i] = c

\* x or y on two texts
OrText(x, y) == IF TruthyText(x) THEN x ELSE y

\* str.split(sep): non-overlapping occurrences, left to right
RECURSIVE SplitOn(_, _)
SplitOn(s, sep) ==
    LET hits == {i \in 1..(Len(s) - Len(sep) + 1) : SubSeq(s, i, i + Len(sep) - 1) = sep}
    IN IF hits = {} THEN <<s>>
       ELSE LET i == CHOOSE h \in hits : \A g \in hits : h <= g
            IN <<SubSeq(s, 1, i - 1)>> \o SplitOn(SubSeq(s, i + Len(sep), Len(s)), sep)

\* sep.join(parts)
RECURSIVE JoinWith(_, _)
JoinWith(parts, sep) ==
    IF parts = <<>> THEN <<>>
    ELSE IF Len(parts) = 1 THEN parts[1]
    ELSE parts[1] \o sep \o JoinWith(Tail(parts), sep)

\* os.path.basename (ntpath): what follows the last separator or drive colon
Basename(p) ==
    LET seps == {i \in 1..Len(p) : p[i] \in {"/", "\\"} \/ (i = 2 /\ p[i] = ":")}
    IN IF seps = {} THEN p
       ELSE SubSeq(p, (CHOOSE i \in seps : \A j \in seps : j <= i) + 1, Len(p))

\* os.path.splitext(name)[0]: the last dot starts the extension unless
\* only dots precede it
SplitExtRoot(name) ==
    LET dots == {i \in 1..Len(name) : name[i] = "." /\ \E j \in 1..(i - 1) : name[j] # "."}
    IN IF dots = {} THEN name
       ELSE SubSeq(name, 1, (CHOOSE i \in dots : \A j \in dots : j <= i) - 1)

\* ImportParser._is_track_number
_is_track_number(text0) ==
    LET text == Strip(text0)
        body == IF text # <<>> /\ text[Len(text)] = "."
                THEN SubSeq(text, 1, Len(text) - 1) ELSE text
    IN \/ /\ Len(body) \in 1..3
          /\ \A i \in 1..Len(body) : IsDigit(body[i])
       \/ /\ Len(text) \in 1..3
          /\ \A i \in 1..Len(text) : IsDigit(text[i])

\* _parse_filename that never takes the first part for a track number
_parse_filename_KeepsTrack(filepath) ==
    LET name_clean == Strip(CollapseWs(SplitExtRoot(Basename(filepath))))
        parts == SplitOn(name_clean, SEPARATOR)
        n == Len(parts)
        artist == IF n >= 2 THEN Strip(parts[1]) ELSE fallback_artist
        title == IF n >= 2 THEN Strip(parts[n]) ELSE name_clean
    IN [artist |-> OrText(artist, fallback_artist),
        title  |-> OrText(title, fallback_title),
        year   |-> 0,
        genre  |-> <<>>,
        source |-> "filename"]

\* ImportParser._parse_filename
_parse_filename(filepath) ==
    LET name_clean == Strip(CollapseWs(SplitExtRoot(Basename(filepath))))
        parts == SplitOn(name_clean, SEPARATOR)
        n == Len(parts)
        artist == IF n = 2 THEN Strip(parts[1])
                  ELSE IF n >= 3
                       THEN IF _is_track_number(Strip(parts[1]))
                            THEN Strip(parts[2]) ELSE Strip(parts[1])
                       ELSE fallback_artist
        title == IF n = 2 THEN Strip(parts[2])
                 ELSE IF n >= 3
                      THEN IF _is_track_number(Strip(parts[1]))
                           THEN Strip(JoinWith(SubSeq(parts, 3, n), SEPARATOR))
                           ELSE Strip(parts[n])
                      ELSE name_clean
    IN [artist |-> OrText(artist, fallback_artist),
        title  |-> OrText(title, fallback_title),
        year   |-> 0,
        genre  |-> <<>>,
        source |-> "filename"]

\* tags read from a file: a record, or NoTags when the file carries none
\* (ImportParser._read_id3_tags returning None)
NoTags == [artist |-> NoneText, title |-> NoneText, year |-> 0, genre |-> NoneText]

\* _has_valid_id3 that asks for both an artist and a title
_has_valid_id3_NeedsBoth(tags) ==
    /\ Strip(OrText(tags.artist, <<>>)) # <<>>
    /\ Strip(OrText(tags.title, <<>>)) # <<>>

\* ImportParser._has_valid_id3
_has_valid_id3(tags) ==
    \/ Strip(OrText(tags.artist, <<>>)) # <<>>
    \/ Strip(OrText(tags.title, <<>>)) # <<>>

\* ImportParser._merge_metadata
_merge_metadata(id3, filename_meta) ==
    LET a0 == Strip(OrText(id3.artist, <<>>))
        t0 == Strip(OrText(id3.title, <<>>))
        artist == IF a0 = <<>> THEN filename_meta.artist ELSE a0
        title == IF t0 = <<>> THEN filename_meta.title ELSE t0
    IN [artist |-> OrText(artist, fallback_artist),
        title  |-> OrText(title, fallback_title),
        year   |-> id3.year,
        genre  |-> Strip(OrText(id3.genre, <<>>)),
        source |-> "id3"]

\* ImportParser.parse on a file: its path and the tags it carries
parse(file) ==
    LET filename_meta == _parse_filename(file.path)
    IN IF file.tags # NoTags /\ _has_valid_id3(file.tags)
       THEN _merge_metadata(file.tags, filename_meta)
       ELSE filename_meta

(***************************************************************************)
(* Taxonomy maps, drive map and record defaults                            *)
(***************************************************************************)
\* JazlerDefaults
DEFAULT_GENRE_ID == 18
fldPriority == 5
fldCat3 == 0

\* SongService.genre_map (ID -> name), as loaded from snCat1
genre_map ==
    (0 :> <<>>) @@ (1 :> <<"R","o","c","k">>) @@ (2 :> <<"P","o","p">>) @@
    (3 :> <<"D","a","n","c","e">>) @@ (18 :> <<"z","a"," ","o","b","r","a","d","u">>)

\* SongService.decade_map (ID -> name), as loaded from snCat2
decade_map ==
    (0 :> <<>>) @@ (1 :> <<"1","9","7","0","'","s">>) @@ (2 :> <<"1","9","8","0","'","S">>) @@
    (3 :> <<"1","9","9","0","'","s">>)

\* reverse map (name -> ID) built by _load_existing_data: names lower-cased
\* and trimmed, entries with an empty name or an id <= 0 left out
ReverseMap(m) ==
    LET ids == {i \in DOMAIN m : TruthyText(m[i]) /\ i > 0}
        names == {Strip(Lower(m[i])) : i \in ids}
    IN [n \in names |->
          CHOOSE i \in ids : /\ Strip(Lower(m[i])) = n
                             /\ \A j \in ids : Strip(Lower(m[j])) = n => j <= i]

\* the reverse maps of the two taxonomy tables
GenreNameToId == ReverseMap(genre_map)
DecadeNameToId == ReverseMap(decade_map)

\* app_config.drive_map: server prefix -> local prefix, in dict order
drive_map == << [server |-> <<"b",":">>, local |-> <<"z",":">>] >>

\* reverse drive mapping of get_insertion_data: the first entry whose local
\* prefix starts the path (case-insensitively) replaces it by the server prefix
RECURSIVE ReverseDriveMap(_, _)
ReverseDriveMap(file_path, dm) ==
    IF dm = <<>> THEN file_path
    ELSE IF StartsWith(Lower(file_path), Lower(Head(dm).local))
         THEN Head(dm).server \o SubSeq(file_path, Len(Head(dm).local) + 1, Len(file_path))
         ELSE ReverseDriveMap(file_path, Tail(dm))

\* str(n) for a non-negative integer
RECURSIVE IntToText(_)
IntToText(n) ==
    IF n < 10 THEN <<Digits[n + 1]>>
    ELSE IntToText(n \div 10) \o <<Digits[(n % 10) + 1]>>

\* _resolve_genres keeping every name in the slot of its position
_resolve_genres_Positional(genre, name_to_id) ==
    LET genre_str == OrText(genre, <<>>)
        pieces == SplitOn(genre_str, <<",">>)
        kept == SelectSeq(pieces, LAMBDA g : Strip(g) # <<>>)
        raw_genres == [i \in 1..Len(kept) |-> Lower(Strip(kept[i]))]
        IdAt(i, default) == IF i <= Len(raw_genres) /\ raw_genres[i] \in DOMAIN name_to_id
                            THEN name_to_id[raw_genres[i]] ELSE default
    IN << IdAt(1, DEFAULT_GENRE_ID), IdAt(2, 0), IdAt(3, 0) >>

\* ImportService._resolve_genres
_resolve_genres(genre, name_to_id) ==
    LET genre_str == OrText(genre, <<>>)
        pieces == SplitOn(genre_str, <<",">>)
        kept == SelectSeq(pieces, LAMBDA g : Strip(g) # <<>>)
        raw_genres == [i \in 1..Len(kept) |-> Lower(Strip(kept[i]))]
        first3 == SubSeq(raw_genres, 1, IF Len(raw_genres) < 3 THEN Len(raw_genres) ELSE 3)
        hit == SelectSeq(first3, LAMBDA g : g \in DOMAIN name_to_id)
        matched_ids == [i \in 1..Len(hit) |-> name_to_id[hit[i]]]
    IN << IF Len(matched_ids) > 0 THEN matched_ids[1] ELSE DEFAULT_GENRE_ID,
          IF Len(matched_ids) > 1 THEN matched_ids[2] ELSE 0,
          IF Len(matched_ids) > 2 THEN matched_ids[3] ELSE 0 >>

\* _resolve_decade looking up the year itself instead of the start of its
\* decade
_resolve_decade_NoFloor(year, name_to_id) ==
    IF year = 0 \/ year < 1900 THEN 0
    ELSE LET decade_str == IntToText(year) \o <<"'", "s">>
         IN IF Lower(decade_str) \in DOMAIN name_to_id
            THEN name_to_id[Lower(decade_str)] ELSE 0

\* ImportService._resolve_decade
_resolve_decade(year, name_to_id) ==
    IF year = 0 \/ year < 1900 THEN 0
    ELSE LET decade_start == (year \div 10) * 10
             decade_str == IntToText(decade_start) \o <<"'", "s">>
         IN IF Lower(decade_str) \in DOMAIN name_to_id
            THEN name_to_id[Lower(decade_str)] ELSE 0

(***************************************************************************)
(* Candidates and insertion payload                                        *)
(***************************************************************************)
\* ImportCandidate(file_path, metadata) with the dataclass defaults
NewCandidate(file_path, metadata) ==
    [file_path        |-> file_path,
     metadata         |-> metadata,
     status           |-> "NEW",
     existing_song_id |-> None,
     existing_path    |-> NoneText,
     artist_id        |-> None,
     artist_is_new    |-> FALSE,
     genre_ids        |-> <<18, 0, 0>>,
     decade_id        |-> 0,
     user_decision    |-> NoDecision]

\* ImportService.get_insertion_data
get_insertion_data(candidate) ==
    LET meta == candidate.metadata
        artist_id == IF candidate.artist_id = None /\ candidate.artist_is_new
                     THEN 0 - 1 ELSE candidate.artist_id
        final_filename == IF TruthyText(candidate.existing_path)
                          THEN candidate.existing_path
                          ELSE ReverseDriveMap(candidate.file_path, drive_map)
    IN [fldArtistCode |-> artist_id,
        fldArtistName |-> meta.artist,
        fldTitle      |-> meta.title,
        fldFilename   |-> final_filename,
        fldYear       |-> meta.year,
        fldCat1a      |-> candidate.genre_ids[1],
        fldCat1b      |-> candidate.genre_ids[2],
        fldCat1c      |-> candidate.genre_ids[3],
        fldCat2       |-> candidate.decade_id,
        fldCat3       |-> fldCat3,
        fldEnabled    |-> TRUE,
        fldPriority   |-> fldPriority]

(***************************************************************************)
(* Inputs: files on disk (path and the tags they carry) and inventories    *)
(***************************************************************************)
TagsMV == [artist |-> <<"M">>, title |-> <<"V">>, year |-> 1985,
           genre |-> <<"R","o","c","k",","," ","p","o","p">>]
FileZa == [path |-> <<"z",":","\\","a">>, tags |-> TagsMV]
\* the same file under another spelling of its path
FileZa2 == [path |-> <<"Z",":","/","a"," ">>, tags |-> TagsMV]
\* no tags: artist and title come from the file name "m - v.mp3"
FileCmv == [path |-> <<"c",":","\\","m"," ","-"," ","v",".","m","p","3">>, tags |-> NoTags]

Files == {FileZa, FileZa2, FileCmv}

\* an inventory record with the defaulted operational fields
SongRow(code, artist, title, filename) ==
    [fldArtistCode |-> code, fldArtistName |-> artist, fldTitle |-> title,
     fldFilename |-> filename, fldYear |-> 0,
     fldCat1a |-> DEFAULT_GENRE_ID, fldCat1b |-> 0, fldCat1c |-> 0, fldCat2 |-> 0,
     fldCat3 |-> fldCat3, fldEnabled |-> TRUE, fldPriority |-> fldPriority]

RowMV == SongRow(1, <<"M">>, <<"V">>, <<"Z",":","\\","A">>)

\* inventories (snDatabase rows, AUID = position) with their artist
\* directory (snArtists names, AUID = position) the service may start on
InitStores ==
    { [songs |-> <<>>, artists |-> <<>>],
      [songs |-> <<RowMV>>, artists |-> << <<"M">> >>] }

\* lists of at most n files, each file at most once
RECURSIVE FileLists(_)
FileLists(n) ==
    IF n = 0 THEN {<<>>}
    ELSE LET shorter == FileLists(n - 1)
             longer == {Append(l, f) : l \in {x \in shorter : Len(x) = n - 1}, f \in Files}
         IN shorter \cup {l \in longer : \A i \in 1..(n - 1) : l[i] # l[n]}

\* the lists of files preview_import is called on
AllFileLists == FileLists(MaxFiles)

(***************************************************************************)
(* State                                                                   *)
(***************************************************************************)
VARIABLES
    songs,                  \* snDatabase: sequence of rows, AUID = position
    artists,                \* snArtists: sequence of fldName, AUID = position
    existing_paths,         \* ImportService._existing_paths
    existing_artist_titles, \* ImportService._existing_artist_titles
    genre_name_to_id,       \* ImportService._genre_name_to_id
    decade_name_to_id,      \* ImportService._decade_name_to_id
    file_paths,             \* argument of the last preview_import
    candidates,             \* list returned by preview_import / given to execute_import
    pc,                     \* "idle", "previewed", "executing", "done"
    idx,                    \* loop position of execute_import (1-based)
    summary,                \* ImportSummary of the running / last batch
    processed,              \* number of candidates handed to execute_import so far
    store_calls,            \* writes issued to the store for the last candidate
    progress_callback,      \* whether execute_import was given a progress callback
    progress_calls,         \* the invocations of the callback in the running / last batch
    artists_at_entry,       \* size of snArtists when the running / last execute_import was entered
    probe,                  \* a direct call of one of the pure helpers: its argument and result
    disk,                   \* paths for which os.path.exists is true
    vfs_files,              \* VfsService.files
    vfs_is_active,          \* VfsService.is_active
    ignore_drive,           \* AuditService.ignore_drive
    audit_out               \* what the last audit-side call returned

vars == <<songs, artists, existing_paths, existing_artist_titles, genre_name_to_id,
          decade_name_to_id, file_paths, candidates, pc, idx, summary, processed,
          store_calls, progress_callback, progress_calls, artists_at_entry, probe, disk, vfs_files, vfs_is_active,
          ignore_drive, audit_out>>

\* the state of the audit side
auditVars == <<disk, vfs_files, vfs_is_active, ignore_drive, audit_out>>

\* the state of ImportService
importVars == <<existing_paths, existing_artist_titles, genre_name_to_id, decade_name_to_id,
                file_paths, candidates, pc, idx, summary, processed, store_calls,
                progress_callback, progress_calls, artists_at_entry>>

\* no direct call of a pure helper
NoProbe == [fn |-> "none"]

\* no audit-side call has returned yet
NoCall == [op |-> "none"]

\* VfsService.__init__ without a log, nothing on disk, AuditService with the
\* default configuration
AuditOff ==
    /\ disk = {}
    /\ vfs_files = {}
    /\ vfs_is_active = FALSE
    /\ ignore_drive = FALSE
    /\ audit_out = NoCall

\* an Optional cache attribute: None (not loaded), or a loaded set / dict
EmptyMap == [k \in {} |-> 0]
UnloadedSet == [loaded |-> FALSE, val |-> {}]
UnloadedMap == [loaded |-> FALSE, val |-> EmptyMap]
Loaded(v) == [loaded |-> TRUE, val |-> v]

\* ImportSummary(total_files = n)
NewSummary(n) ==
    [total_files |-> n, successful |-> 0, skipped |-> 0, errors |-> 0,
     new_artists_created |-> 0, conflicts_resolved |-> 0, results |-> <<>>]

Init ==
    /\ \E st \in InitStores : songs = st.songs /\ artists = st.artists
    /\ existing_paths = UnloadedSet
    /\ existing_artist_titles = UnloadedMap
    /\ genre_name_to_id = UnloadedMap
    /\ decade_name_to_id = UnloadedMap
    /\ file_paths = <<>>
    /\ candidates = <<>>
    /\ pc = "idle"
    /\ idx = 0
    /\ summary = NewSummary(0)
    /\ processed = 0
    /\ store_calls = <<>>
    /\ progress_callback = FALSE
    /\ progress_calls = <<>>
    /\ artists_at_entry = 0
    /\ probe = NoProbe
    /\ AuditOff

(***************************************************************************)
(* preview_import                                                          *)
(***************************************************************************)
\* SongService.get_all_paths: the non-empty fldFilename values
get_all_paths(rows) ==
    {rows[i].fldFilename : i \in {j \in 1..Len(rows) : TruthyText(rows[j].fldFilename)}}

\* the path index built by _load_existing_data
LoadPaths(rows) == {normalize_path(p) : p \in get_all_paths(rows)}

\* a key made of the texts of the row as they are stored
RowKey_Raw(row) ==
    OrText(row.fldArtistName, <<>>) \o <<"|","|","|">> \o OrText(row.fldTitle, <<>>)

\* key of an inventory row in the artist+title index
RowKey(row) == ArtistTitleKey(OrText(row.fldArtistName, <<>>), OrText(row.fldTitle, <<>>))

\* the artist+title index built by _load_existing_data: rows are visited in
\* order and a later row replaces an earlier one under the same key
LoadArtistTitles(rows) ==
    [k \in {RowKey(rows[i]) : i \in 1..Len(rows)} |->
        LET i == CHOOSE j \in 1..Len(rows) :
                    /\ RowKey(rows[j]) = k
                    /\ \A h \in 1..Len(rows) : RowKey(rows[h]) = k => h <= j
        IN [id |-> i, path |-> rows[i].fldFilename]]

\* a load that reads the store again on every call
_load_existing_data_Reloads(fetch_fails) ==
    [paths    |-> Loaded(LoadPaths(songs)),
     titles   |-> IF fetch_fails THEN Loaded(EmptyMap)
                  ELSE Loaded(LoadArtistTitles(songs)),
     genres   |-> Loaded(GenreNameToId),
     decades  |-> Loaded(DecadeNameToId)]

\* ImportService._load_existing_data: each cache is filled only when it is
\* None; a failing fetch of the comparison rows leaves an empty index
_load_existing_data(fetch_fails) ==
    [paths    |-> IF existing_paths.loaded THEN existing_paths
                  ELSE Loaded(LoadPaths(songs)),
     titles   |-> IF existing_artist_titles.loaded THEN existing_artist_titles
                  ELSE IF fetch_fails THEN Loaded(EmptyMap)
                  ELSE Loaded(LoadArtistTitles(songs)),
     genres   |-> IF genre_name_to_id.loaded THEN genre_name_to_id
                  ELSE Loaded(GenreNameToId),
     decades  |-> IF decade_name_to_id.loaded THEN decade_name_to_id
                  ELSE Loaded(DecadeNameToId)]

\* ArtistService.get_by_name: AUID of the first artist of exactly that name,
\* None when there is none
get_by_name(dir, name) ==
    LET hits == {i \in 1..Len(dir) : dir[i] = name}
    IN IF hits = {} THEN None ELSE CHOOSE i \in hits : \A j \in hits : i <= j

\* _resolve_artist, _resolve_genres and _resolve_decade applied to a candidate
ResolveLinkage(candidate, dir, cache) ==
    LET existing == get_by_name(dir, candidate.metadata.artist)
    IN [candidate EXCEPT
          !.artist_id = existing,
          !.artist_is_new = (existing = None),
          !.genre_ids = _resolve_genres(candidate.metadata.genre, cache.genres.val),
          !.decade_id = _resolve_decade(candidate.metadata.year, cache.decades.val)]

\* the text of a raised exception, str(e)
ErrText == <<"e","r","r">>

\* the candidate preview_import appends when _analyze_file raised
ErrorCandidate(file_path) ==
    NewCandidate(file_path,
                 [artist |-> <<"E","r","r","o","r">>, title |-> ErrText,
                  year |-> 0, genre |-> <<>>, source |-> "fallback"])

\* an analysis that looks at the artist+title index before the path index
_analyze_file_KeyFirst(file, dir, cache, read_fails) ==
    LET metadata == parse(file)
        candidate == NewCandidate(file.path, metadata)
        norm_path == normalize_path(file.path)
        key == ArtistTitleKey(metadata.artist, metadata.title)
    IN IF key \in DOMAIN cache.titles.val
       THEN LET existing == cache.titles.val[key]
                conflict == [candidate EXCEPT !.status = "CONFLICT",
                                              !.existing_song_id = existing.id,
                                              !.existing_path = existing.path]
            IN IF read_fails THEN conflict
               ELSE ResolveLinkage(conflict, dir, cache)
       ELSE IF norm_path \in cache.paths.val
       THEN [candidate EXCEPT !.status = "DUPLICATE"]
       ELSE IF read_fails THEN ErrorCandidate(file.path)
            ELSE ResolveLinkage(candidate, dir, cache)

\* ImportService._analyze_file inside the try of preview_import;
\* read_fails: the store read issued for this file (fetch_one / get_by_name) raises
_analyze_file(file, dir, cache, read_fails) ==
    LET metadata == parse(file)
        candidate == NewCandidate(file.path, metadata)
        norm_path == normalize_path(file.path)
        key == ArtistTitleKey(metadata.artist, metadata.title)
    IN IF norm_path \in cache.paths.val
       THEN [candidate EXCEPT !.status = "DUPLICATE"]
       ELSE IF key \in DOMAIN cache.titles.val
       THEN LET existing == cache.titles.val[key]
                conflict == [candidate EXCEPT !.status = "CONFLICT",
                                              !.existing_song_id = existing.id,
                                              !.existing_path = existing.path]
            IN IF read_fails THEN conflict
               ELSE ResolveLinkage(conflict, dir, cache)
       ELSE IF read_fails THEN ErrorCandidate(file.path)
            ELSE ResolveLinkage(candidate, dir, cache)

\* a loop that leaves out the files whose analysis raised
preview_loop_DropsFailed(files, dir, cache, read_fails) ==
    LET all == [i \in 1..Len(files) |->
                   [failed |-> read_fails[i],
                    candidate |-> _analyze_file(files[i], dir, cache, read_fails[i])]]
        kept == SelectSeq(all, LAMBDA x : ~x.failed)
    IN [i \in 1..Len(kept) |-> kept[i].candidate]

\* the loop of preview_import: one candidate is appended per path, the
\* analysed one or, when the analysis raised, the error candidate
preview_loop(files, dir, cache, read_fails) ==
    [i \in 1..Len(files) |-> _analyze_file(files[i], dir, cache, read_fails[i])]

\* a preview that writes the first artist it did not find to the directory
PreviewImport_CreatesArtist ==
    /\ pc = "idle"
    /\ \E fetch_fails \in (IF existing_artist_titles.loaded THEN {FALSE} ELSE BOOLEAN) :
         \E cache \in {_load_existing_data(fetch_fails)} :
            /\ existing_paths' = cache.paths
            /\ existing_artist_titles' = cache.titles
            /\ genre_name_to_id' = cache.genres
            /\ decade_name_to_id' = cache.decades
            /\ \E files \in {l \in AllFileLists : Len(l) <= MaxProcessed - processed} :
                 \E read_fails \in [1..Len(files) -> BOOLEAN] :
                   \E found \in {preview_loop(files, artists, cache, read_fails)} :
                     /\ Cardinality({i \in 1..Len(files) : read_fails[i]}) <= MaxReadFailures
                     /\ file_paths' = [i \in 1..Len(files) |-> files[i].path]
                     /\ candidates' = found
                     /\ artists' =
                          LET new == {i \in 1..Len(found) : found[i].artist_is_new}
                          IN IF new = {} THEN artists
                             ELSE Append(artists, found[CHOOSE i \in new : TRUE].metadata.artist)
    /\ pc' = "previewed"
    /\ idx' = 0
    /\ summary' = NewSummary(0)
    /\ store_calls' = <<>>
    /\ UNCHANGED <<songs, processed>>
    /\ UNCHANGED <<progress_callback, progress_calls, artists_at_entry>>
    /\ UNCHANGED auditVars
    /\ UNCHANGED probe

\* ImportService.preview_import
PreviewImport ==
    /\ pc = "idle"
    /\ \E fetch_fails \in (IF existing_artist_titles.loaded THEN {FALSE} ELSE BOOLEAN) :
         \E cache \in {_load_existing_data(fetch_fails)} :
            /\ existing_paths' = cache.paths
            /\ existing_artist_titles' = cache.titles
            /\ genre_name_to_id' = cache.genres
            /\ decade_name_to_id' = cache.decades
            /\ \E files \in {l \in AllFileLists : Len(l) <= MaxProcessed - processed} :
                 \E read_fails \in [1..Len(files) -> BOOLEAN] :
                   /\ Cardinality({i \in 1..Len(files) : read_fails[i]}) <= MaxReadFailures
                   /\ file_paths' = [i \in 1..Len(files) |-> files[i].path]
                   /\ candidates' = preview_loop(files, artists, cache, read_fails)
    /\ pc' = "previewed"
    /\ idx' = 0
    /\ summary' = NewSummary(0)
    /\ store_calls' = <<>>
    /\ UNCHANGED <<songs, artists, processed>>
    /\ UNCHANGED <<progress_callback, progress_calls, artists_at_entry>>
    /\ UNCHANGED auditVars
    /\ UNCHANGED probe

\* ImportService.clear_cache
ClearCache ==
    /\ pc \in {"idle", "previewed"}
    /\ existing_paths' = UnloadedSet
    /\ existing_artist_titles' = UnloadedMap
    /\ genre_name_to_id' = UnloadedMap
    /\ decade_name_to_id' = UnloadedMap
    /\ UNCHANGED <<songs, artists, file_paths, candidates, pc, idx, summary, processed,
                   store_calls>>
    /\ UNCHANGED <<progress_callback, progress_calls, artists_at_entry>>
    /\ UNCHANGED auditVars
    /\ UNCHANGED probe

(***************************************************************************)
(* execute_import                                                          *)
(***************************************************************************)
\* what a write to the store does: it succeeds; it raises (rolled back);
\* or it reports no result (insert: row committed, identity not returned;
\* update: row count not positive)
StoreOutcomes == {"ok", "raise", "noresult"}

Decisions == {NoDecision, "skip", "merge", "import"}

\* ImportResult(...)
ImportResult(file_path, success, song_id, artist_id, error, action) ==
    [file_path |-> file_path, success |-> success, song_id |-> song_id,
     artist_id |-> artist_id, error |-> error, action |-> action]

\* what handling one candidate yields: the store and path index afterwards,
\* the ImportResult (when no exception escaped), the store writes issued
Outcome(rows, dir, paths, result, raised, calls) ==
    [songs |-> rows, artists |-> dir, paths |-> paths, result |-> result,
     raised |-> raised, calls |-> calls]

\* an artist creation that does not look the name up first
ArtistCreate_NoLookup(dir, name, out) ==
    IF out = "raise"
    THEN [artists |-> dir, id |-> None, raised |-> TRUE,
          calls |-> <<[op |-> "insert_artist", arg |-> name, ret |-> Raised]>>]
    ELSE [artists |-> Append(dir, name),
          id |-> IF out = "ok" THEN Len(dir) + 1 ELSE None,
          raised |-> FALSE,
          calls |-> <<[op |-> "insert_artist", arg |-> name,
                       ret |-> IF out = "ok" THEN Len(dir) + 1 ELSE None]>>]

\* ArtistService.create: the existing AUID when the name is already there,
\* otherwise an insert into snArtists (out: what that insert does)
ArtistCreate(dir, name, out) ==
    LET existing == get_by_name(dir, name)
    IN IF existing # None
       THEN [artists |-> dir, id |-> existing, raised |-> FALSE, calls |-> <<>>]
       ELSE IF out = "raise"
       THEN [artists |-> dir, id |-> None, raised |-> TRUE,
             calls |-> <<[op |-> "insert_artist", arg |-> name, ret |-> Raised]>>]
       ELSE [artists |-> Append(dir, name),
             id |-> IF out = "ok" THEN Len(dir) + 1 ELSE None,
             raised |-> FALSE,
             calls |-> <<[op |-> "insert_artist", arg |-> name,
                          ret |-> IF out = "ok" THEN Len(dir) + 1 ELSE None]>>]

\* a path index that _create_song leaves as it was
UpdatePathCache_None(paths, norm_path) == paths

\* the cache update of _create_song: the path is added when the path index
\* is loaded (not None)
UpdatePathCache(paths, norm_path) ==
    IF paths.loaded THEN Loaded(paths.val \cup {norm_path}) ELSE paths

\* ImportService._create_song
_create_song(candidate, a_out, i_out) ==
    LET needs_artist == candidate.artist_id = None /\ candidate.artist_is_new
        made == IF needs_artist
                THEN ArtistCreate(artists, candidate.metadata.artist, a_out)
                ELSE [artists |-> artists, id |-> candidate.artist_id,
                      raised |-> FALSE, calls |-> <<>>]
        artist_id == made.id
        data == [get_insertion_data(candidate) EXCEPT !.fldArtistCode = artist_id]
        norm_path == normalize_path(candidate.file_path)
    IN IF made.raised
       THEN Outcome(songs, artists, existing_paths,
                    ImportResult(candidate.file_path, FALSE, None, None, "exception", "error"),
                    TRUE, made.calls)
       ELSE IF needs_artist /\ ~TruthyInt(artist_id)
       THEN Outcome(songs, made.artists, existing_paths,
                    ImportResult(candidate.file_path, FALSE, None, None,
                                 "Failed to create artist", "error"),
                    FALSE, made.calls)
       ELSE IF i_out = "ok"
       THEN Outcome(Append(songs, data), made.artists,
                    UpdatePathCache(existing_paths, norm_path),
                    ImportResult(candidate.file_path, TRUE, Len(songs) + 1, artist_id,
                                 "", "created"),
                    FALSE,
                    Append(made.calls, [op |-> "insert", arg |-> data, ret |-> Len(songs) + 1]))
       ELSE IF i_out = "noresult"
       THEN Outcome(Append(songs, data), made.artists, existing_paths,
                    ImportResult(candidate.file_path, FALSE, None, None,
                                 "Insert returned no ID", "error"),
                    FALSE,
                    Append(made.calls, [op |-> "insert", arg |-> data, ret |-> None]))
       ELSE Outcome(songs, made.artists, existing_paths,
                    ImportResult(candidate.file_path, FALSE, None, None, "exception", "error"),
                    FALSE,
                    Append(made.calls, [op |-> "insert", arg |-> data, ret |-> Raised]))

\* AccessBackend.update: the named fields of the row are overwritten
ApplyUpdate(rows, id, fields) ==
    [rows EXCEPT ![id] = [f \in DOMAIN @ |-> IF f \in DOMAIN fields THEN fields[f] ELSE @[f]]]

\* an update that also overwrites the title
MergeFields_WithTitle(candidate) ==
    [fldFilename |-> candidate.file_path, fldTitle |-> candidate.metadata.title]

\* the fields _merge_into_existing passes to the update
MergeFields(candidate) == [fldFilename |-> candidate.file_path]

\* _merge_into_existing without the check of the existing id
_merge_into_existing_NoIdCheck(candidate, u_out) ==
    LET id == candidate.existing_song_id
        call == [op |-> "update", arg |-> [id |-> id, fields |-> MergeFields(candidate)],
                 ret |-> IF u_out = "raise" THEN Raised
                         ELSE IF u_out = "ok" /\ id \in 1..Len(songs) THEN 1 ELSE 0]
    IN IF u_out = "ok" /\ id \in 1..Len(songs)
       THEN Outcome(ApplyUpdate(songs, id, MergeFields(candidate)),
                    artists, existing_paths,
                    ImportResult(candidate.file_path, TRUE, id, None, "", "merged"),
                    FALSE, <<call>>)
       ELSE IF u_out = "raise"
       THEN Outcome(songs, artists, existing_paths,
                    ImportResult(candidate.file_path, FALSE, None, None, "exception", "error"),
                    FALSE, <<call>>)
       ELSE Outcome(songs, artists, existing_paths,
                    ImportResult(candidate.file_path, FALSE, None, None,
                                 "Merge update failed", "error"),
                    FALSE, <<call>>)

\* ImportService._merge_into_existing
_merge_into_existing(candidate, u_out) ==
    LET id == candidate.existing_song_id
        call == [op |-> "update", arg |-> [id |-> id, fields |-> MergeFields(candidate)],
                 ret |-> IF u_out = "raise" THEN Raised
                         ELSE IF u_out = "ok" /\ id \in 1..Len(songs) THEN 1 ELSE 0]
    IN IF ~TruthyInt(id)
       THEN Outcome(songs, artists, existing_paths,
                    ImportResult(candidate.file_path, FALSE, None, None,
                                 "No existing song ID for merge", "error"),
                    FALSE, <<>>)
       ELSE IF u_out = "ok" /\ id \in 1..Len(songs)
       THEN Outcome(ApplyUpdate(songs, id, MergeFields(candidate)),
                    artists, existing_paths,
                    ImportResult(candidate.file_path, TRUE, id, None, "", "merged"),
                    FALSE, <<call>>)
       ELSE IF u_out = "raise"
       THEN Outcome(songs, artists, existing_paths,
                    ImportResult(candidate.file_path, FALSE, None, None, "exception", "error"),
                    FALSE, <<call>>)
       ELSE Outcome(songs, artists, existing_paths,
                    ImportResult(candidate.file_path, FALSE, None, None,
                                 "Merge update failed", "error"),
                    FALSE, <<call>>)

\* a decision other than the one of the candidate
DecisionOf_ImportMerges(candidate) ==
    IF candidate.user_decision = NoDecision THEN "skip"
    ELSE IF candidate.user_decision = "import" THEN "merge"
    ELSE candidate.user_decision

\* candidate.user_decision or "skip"
DecisionOf(candidate) ==
    IF candidate.user_decision = NoDecision THEN "skip" ELSE candidate.user_decision

\* _import_candidate without the branch for duplicates
_import_candidate_NoDuplicateBranch(candidate, a_out, i_out, u_out) ==
    LET decision == DecisionOf(candidate)
    IN IF candidate.status = "CONFLICT" /\ decision = "skip"
       THEN Outcome(songs, artists, existing_paths,
                    ImportResult(candidate.file_path, FALSE, None, None,
                                 "Conflict - user chose to skip", "skipped"),
                    FALSE, <<>>)
       ELSE IF candidate.status = "CONFLICT" /\ decision = "merge"
       THEN _merge_into_existing(candidate, u_out)
       ELSE _create_song(candidate, a_out, i_out)

\* ImportService._import_candidate
_import_candidate(candidate, a_out, i_out, u_out) ==
    LET decision == DecisionOf(candidate)
    IN IF candidate.status = "DUPLICATE"
       THEN Outcome(songs, artists, existing_paths,
                    ImportResult(candidate.file_path, FALSE, None, None,
                                 "Duplicate path exists", "skipped"),
                    FALSE, <<>>)
       ELSE IF candidate.status = "CONFLICT" /\ decision = "skip"
       THEN Outcome(songs, artists, existing_paths,
                    ImportResult(candidate.file_path, FALSE, None, None,
                                 "Conflict - user chose to skip", "skipped"),
                    FALSE, <<>>)
       ELSE IF candidate.status = "CONFLICT" /\ decision = "merge"
       THEN _merge_into_existing(candidate, u_out)
       ELSE _create_song(candidate, a_out, i_out)

\* tallies that record no result for a candidate whose handling raised
Tally_DropsRaised(sum, candidate, out) ==
    LET result == out.result
    IN IF out.raised
       THEN [sum EXCEPT !.errors = @ + 1]
       ELSE IF result.success
       THEN [sum EXCEPT
               !.results = Append(@, result),
               !.successful = @ + 1,
               !.new_artists_created =
                   IF candidate.artist_is_new /\ result.action = "created" THEN @ + 1 ELSE @,
               !.conflicts_resolved =
                   IF candidate.status = "CONFLICT" THEN @ + 1 ELSE @]
       ELSE IF result.action = "skipped"
       THEN [sum EXCEPT !.results = Append(@, result), !.skipped = @ + 1]
       ELSE [sum EXCEPT !.results = Append(@, result), !.errors = @ + 1]

\* the tallies execute_import updates after one candidate
Tally(sum, candidate, out) ==
    LET result == out.result
    IN IF out.raised
       THEN [sum EXCEPT !.errors = @ + 1, !.results = Append(@, result)]
       ELSE IF result.success
       THEN [sum EXCEPT
               !.results = Append(@, result),
               !.successful = @ + 1,
               !.new_artists_created =
                   IF candidate.artist_is_new /\ result.action = "created" THEN @ + 1 ELSE @,
               !.conflicts_resolved =
                   IF candidate.status = "CONFLICT" THEN @ + 1 ELSE @]
       ELSE IF result.action = "skipped"
       THEN [sum EXCEPT !.results = Append(@, result), !.skipped = @ + 1]
       ELSE [sum EXCEPT !.results = Append(@, result), !.errors = @ + 1]

\* the progress report at the end of an iteration of execute_import without
\* a report for a candidate that ended in error
Notify_SkipsErrors(calls, given, current, total, results) ==
    IF given /\ ~(results # <<>> /\ results[Len(results)].action = "error")
    THEN Append(calls, [current |-> current, total |-> total,
                        status |-> IF results # <<>> THEN results[Len(results)].action
                                   ELSE "processing"])
    ELSE calls

\* the progress report at the end of an iteration of execute_import; current
\* is idx + 1 of the 0-based loop
Notify(calls, given, current, total, results) ==
    IF given
    THEN Append(calls, [current |-> current, total |-> total,
                        status |-> IF results # <<>> THEN results[Len(results)].action
                                   ELSE "processing"])
    ELSE calls

\* execute_import is called on the previewed candidates, each carrying the
\* decision attached to it; the summary is created
ExecuteBegin ==
    /\ pc = "previewed"
    /\ processed + Len(candidates) <= MaxProcessed
    /\ processed' = processed + Len(candidates)
    /\ \E decision \in [1..Len(candidates) -> Decisions] :
         /\ \A i \in 1..Len(candidates) :
              /\ candidates[i].status = "NEW" => decision[i] = "skip"
              /\ candidates[i].status = "DUPLICATE" => decision[i] \in {"skip", "import"}
         /\ candidates' = [i \in 1..Len(candidates) |->
                             [candidates[i] EXCEPT !.user_decision = decision[i]]]
    /\ summary' = NewSummary(Len(candidates))
    /\ idx' = 1
    /\ pc' = IF Len(candidates) = 0 THEN "done" ELSE "executing"
    /\ store_calls' = <<>>
    /\ progress_callback' \in BOOLEAN
    /\ progress_calls' = <<>>
    /\ artists_at_entry' = Len(artists)
    /\ UNCHANGED <<songs, artists, existing_paths, existing_artist_titles,
                   genre_name_to_id, decade_name_to_id, file_paths>>
    /\ UNCHANGED auditVars
    /\ UNCHANGED probe

\* one iteration of the loop of execute_import; after the last one the
\* summary is returned
ExecuteStep ==
    /\ pc = "executing"
    /\ idx <= Len(candidates)
    /\ \E out \in {_import_candidate(candidates[idx], w[1], w[2], w[3]) :
                        w \in StoreOutcomes \X StoreOutcomes \X StoreOutcomes} :
        /\ songs' = out.songs
        /\ artists' = out.artists
        /\ existing_paths' = out.paths
        /\ store_calls' = out.calls
        /\ summary' = Tally(summary, candidates[idx], out)
        /\ progress_calls' = Notify(progress_calls, progress_callback, idx, Len(candidates),
                                    Tally(summary, candidates[idx], out).results)
    /\ idx' = idx + 1
    /\ pc' = IF idx = Len(candidates) THEN "done" ELSE "executing"
    /\ UNCHANGED <<existing_artist_titles, genre_name_to_id, decade_name_to_id,
                   file_paths, candidates, processed, progress_callback,
                   artists_at_entry>>
    /\ UNCHANGED auditVars
    /\ UNCHANGED probe

\* the caller is done with the candidates of a preview it does not execute,
\* or with the returned summary
Finish ==
    /\ pc \in {"previewed", "done"}
    /\ pc' = "idle"
    /\ file_paths' = <<>>
    /\ candidates' = <<>>
    /\ summary' = NewSummary(0)
    /\ idx' = 0
    /\ store_calls' = <<>>
    /\ progress_callback' = FALSE
    /\ progress_calls' = <<>>
    /\ artists_at_entry' = 0
    /\ UNCHANGED <<songs, artists, existing_paths, existing_artist_titles,
                   genre_name_to_id, decade_name_to_id, processed>>
    /\ UNCHANGED auditVars
    /\ UNCHANGED probe

Next ==
    \/ PreviewImport
    \/ ClearCache
    \/ ExecuteBegin
    \/ ExecuteStep
    \/ Finish

Spec == Init /\ [][Next]_vars

(***************************************************************************)
(* AuditService over MediaService and VfsService                           *)
(***************************************************************************)
\* characters of the class [a-z0-9]
IsLowerAlnum(c) == IsDigit(c) \/ \E i \in 1..Len(LowerChars) : LowerChars[i] = c

\* AuditService._normalize_string
_normalize_string(text) ==
    IF ~TruthyText(text) THEN <<>>
    ELSE SelectSeq(Lower(text), IsLowerAlnum)

\* str.replace(old, new): non-overlapping occurrences, left to right
ReplaceAll(text, old, new) == JoinWith(SplitOn(text, old), new)

\* the double extension that _normalize_path folds, and what it becomes
DoubleExt == <<".","m","p","3",".","m","p","3">>
SingleExt == <<".","m","p","3">>

\* AuditService._normalize_path; ignore: the audit_ignore_drive_letters setting
_normalize_path(path, ignore) ==
    IF ~TruthyText(path) THEN <<>>
    ELSE LET p0 == Strip(ReplaceSlash(Lower(path)))
             p1 == IF ignore /\ \E i \in 1..2 : i <= Len(p0) /\ p0[i] = ":"
                   THEN SubSeq(p0, 3, Len(p0)) ELSE p0
         IN CollapseWs(ReplaceAll(p1, DoubleExt, SingleExt))

\* MediaService.resolve_path: the first entry of the drive map whose (lower
\* case) server prefix starts the path replaces it by the local prefix
RECURSIVE ForwardDriveMap(_, _)
ForwardDriveMap(db_path, dm) ==
    IF dm = <<>> THEN db_path
    ELSE IF StartsWith(Lower(db_path), Lower(Head(dm).server))
         THEN Head(dm).local \o SubSeq(db_path, Len(Head(dm).server) + 1, Len(db_path))
         ELSE ForwardDriveMap(db_path, Tail(dm))

resolve_path(db_path) ==
    IF ~TruthyText(db_path) THEN <<>> ELSE ForwardDriveMap(db_path, drive_map)

\* code point order of the characters that occur in paths
CodeOrder == <<" ", "-", ".", "/">> \o Digits \o <<":">> \o UpperChars \o <<"\\">> \o LowerChars
Code(c) == CHOOSE i \in 1..Len(CodeOrder) : CodeOrder[i] = c

\* s < t on str
RECURSIVE LessText(_, _)
LessText(s, t) ==
    IF t = <<>> THEN FALSE
    ELSE IF s = <<>> THEN TRUE
    ELSE IF Head(s) = Head(t) THEN LessText(Tail(s), Tail(t))
    ELSE Code(Head(s)) < Code(Head(t))

\* sorted(paths) for paths that are pairwise different
RECURSIVE Sorted(_)
Sorted(paths) ==
    IF paths = {} THEN <<>>
    ELSE LET least == CHOOSE p \in paths : \A q \in paths \ {p} : LessText(p, q)
         IN <<least>> \o Sorted(paths \ {least})

\* MediaService.exists
exists(path) == TruthyText(path) /\ path \in disk

\* VfsService.exists
vfs_exists(path) == TruthyText(path) /\ Lower(path) \in vfs_files

\* MediaService.get_file_info: the fields run_audit reads
get_file_info(db_path) ==
    LET resolved == resolve_path(db_path)
        found == exists(resolved)
    IN [resolved_path |-> resolved,
        exists |-> found,
        vfs_status |-> IF found THEN "live"
                       ELSE IF vfs_exists(db_path) \/ vfs_exists(resolved) THEN "virtual"
                       ELSE "missing"]

\* name_map of run_audit: the snapshot paths under the normalized file name,
\* filled only when the snapshot is active
name_map(norm_name) ==
    IF vfs_is_active
    THEN {full_path \in vfs_files : _normalize_string(Basename(full_path)) = norm_name}
    ELSE {}

\* one pass of the loop of run_audit over a row
AuditRow(results, id, row) ==
    LET db_path == row.fldFilename
        file_info == get_file_info(db_path)
        potential_paths == name_map(_normalize_string(Basename(db_path)))
        song_data == [id |-> id, artist |-> row.fldArtistName, title |-> row.fldTitle,
                      db_path |-> db_path, resolved_path |-> file_info.resolved_path,
                      new_paths |-> potential_paths]
    IN IF ~TruthyText(db_path) THEN results
       ELSE IF file_info.exists THEN [results EXCEPT !.found = @ + 1]
       ELSE IF file_info.vfs_status = "virtual" THEN [results EXCEPT !.virtual = @ + 1]
       ELSE IF potential_paths # {} THEN [results EXCEPT !.moved = Append(@, song_data)]
       ELSE [results EXCEPT !.missing = Append(@, song_data)]

\* the loop of run_audit over rows k .. Len(rows)
RECURSIVE AuditFrom(_, _, _)
AuditFrom(results, rows, k) ==
    IF k > Len(rows) THEN results
    ELSE AuditFrom(AuditRow(results, k, rows[k]), rows, k + 1)

\* AuditService.run_audit
run_audit(rows) ==
    AuditFrom([total |-> Len(rows), found |-> 0, virtual |-> 0, moved |-> <<>>,
               missing |-> <<>>], rows, 1)

\* MediaService.base_path
base_path == <<"z",":","\\","d">>

\* str.endswith(suffix)
EndsWith(s, suffix) ==
    /\ Len(suffix) <= Len(s)
    /\ SubSeq(s, Len(s) - Len(suffix) + 1, Len(s)) = suffix

\* what os.walk(base_path) can yield: the .mp3 files below the base path
WalkListing ==
    {f \in disk : /\ StartsWith(f, base_path \o <<"\\">>)
                  /\ EndsWith(Lower(f), SingleExt)}

\* MediaService.scan_files; walked: the files os.walk yielded before it
\* stopped (all of them when nothing failed, none when the base path is
\* not found)
scan_files(walked) == [files |-> walked, raised |-> FALSE]

\* find_untracked_files comparing the stored paths as they are, without
\* the drive mapping
find_untracked_files_NoRemap(fs) ==
    LET normalized_db_paths ==
            {_normalize_path(q, ignore_drive) : q \in get_all_paths(songs)}
        fs_paths == IF vfs_is_active THEN vfs_files ELSE fs.files
        untracked == {q \in fs_paths : _normalize_path(q, ignore_drive) \notin normalized_db_paths}
    IN [op |-> "find_untracked_files",
        raised |-> (~vfs_is_active /\ fs.raised),
        fs_paths |-> fs_paths,
        untracked |-> IF ~vfs_is_active /\ fs.raised THEN <<>> ELSE Sorted(untracked)]

\* AuditService.find_untracked_files; fs: what the listing of the file
\* system gave
find_untracked_files(fs) ==
    LET normalized_db_paths ==
            {_normalize_path(resolve_path(q), ignore_drive) : q \in get_all_paths(songs)}
        fs_paths == IF vfs_is_active THEN vfs_files ELSE fs.files
        untracked == {q \in fs_paths : _normalize_path(q, ignore_drive) \notin normalized_db_paths}
    IN [op |-> "find_untracked_files",
        raised |-> (~vfs_is_active /\ fs.raised),
        fs_paths |-> fs_paths,
        untracked |-> IF ~vfs_is_active /\ fs.raised THEN <<>> ELSE Sorted(untracked)]

\* a line of the snapshot log after strip(): a "Directory:" header, a file
\* line of the table format, or any other line
DirLine(text) == [kind |-> "dir", text |-> text]
FileLine(text) == [kind |-> "file", text |-> text]
OtherLine(text) == [kind |-> "other", text |-> text]

\* os.path.isabs(line) or line.startswith('\\\\'), for lines with a drive
IsAbsLine(line) ==
    \/ Len(line) >= 3 /\ line[2] = ":" /\ line[3] \in {"\\", "/"}
    \/ StartsWith(line, <<"\\", "\\">>)

\* os.path.join(current_dir, filename) for a relative file name
JoinDir(current_dir, filename) ==
    IF current_dir[Len(current_dir)] \in {"\\", "/", ":"}
    THEN current_dir \o filename
    ELSE current_dir \o <<"\\">> \o filename

\* the loop of load_log over the lines it manages to read
RECURSIVE ReadLog(_, _, _)
ReadLog(lines, current_dir, files) ==
    IF lines = <<>> THEN files
    ELSE LET line == Head(lines)
         IN IF line.kind = "dir"
            THEN ReadLog(Tail(lines), Strip(line.text), files)
            ELSE IF line.kind = "file"
            THEN ReadLog(Tail(lines), current_dir,
                         IF current_dir # <<>>
                         THEN files \cup {Lower(JoinDir(current_dir, line.text))}
                         ELSE files)
            ELSE ReadLog(Tail(lines), current_dir,
                         IF IsAbsLine(line.text) THEN files \cup {Lower(line.text)}
                         ELSE files)

\* load_log without its except clause: the failure leaves the call
load_log_Raises(log, read, failed) ==
    [files |-> ReadLog(SubSeq(log, 1, IF failed THEN read ELSE Len(log)), <<>>, vfs_files),
     is_active |-> IF failed THEN vfs_is_active ELSE TRUE,
     ret |-> ~failed,
     raised |-> failed]

\* VfsService.load_log; read: the number of lines read when the failure
\* happened, failed: whether one happened
load_log(log, read, failed) ==
    [files |-> ReadLog(SubSeq(log, 1, IF failed THEN read ELSE Len(log)), <<>>, vfs_files),
     is_active |-> IF failed THEN vfs_is_active ELSE TRUE,
     ret |-> ~failed,
     raised |-> FALSE]

(***************************************************************************)
(* Libraries the audit runs on                                             *)
(***************************************************************************)
\* most rows in the inventory of an audit
MaxAuditRows == 2
\* most files on disk in an audit
MaxDiskFiles == 3

StoredX == <<"B",":","\\","d","\\","x",".","m","p","3">>
StoredY == <<"z",":","\\","d","\\","y",".","m","p","3">>
AuditRowSet ==
    { SongRow(1, <<"M">>, <<"V">>, StoredX),
      SongRow(1, <<"M">>, <<"W">>, StoredY),
      SongRow(1, <<"M">>, <<"U">>, <<>>) }

\* inventories of at most n rows, each row at most once
RECURSIVE RowLists(_)
RowLists(n) ==
    IF n = 0 THEN {<<>>}
    ELSE LET shorter == RowLists(n - 1)
             longer == {Append(l, r) : l \in {x \in shorter : Len(x) = n - 1}, r \in AuditRowSet}
         IN shorter \cup {l \in longer : \A i \in 1..(n - 1) : l[i] # l[n]}

AuditStores == RowLists(MaxAuditRows)

DiskUniverse ==
    { <<"z",":","\\","d","\\","x",".","m","p","3">>,
      <<"z",":","\\","d","\\","n",".","m","p","3">>,
      <<"z",":","\\","d","\\","Y",".","m","p","3",".","m","p","3">>,
      <<"z",":","\\","d","\\","t",".","t","x","t">> }

AuditDisks == {d \in SUBSET DiskUniverse : Cardinality(d) <= MaxDiskFiles}

\* snapshot logs
AuditLogs ==
    { << OtherLine(<<"B",":","\\","d","\\","x",".","m","p","3">>), OtherLine(<<"x",".","m","p","3">>) >>,
      << FileLine(<<"o",".","m","p","3">>), DirLine(<<"z",":","\\","e">>), FileLine(<<"X","-",".","m","p","3">>),
         OtherLine(<<"z",":","\\","d","\\","y",".","m","p","3">>) >>,
      << DirLine(<<"Z",":","\\","d"," ">>), FileLine(<<"y",".","m","p","3">>), OtherLine(<<"z",":","/","d","/","y",".","m","p","3">>) >>,
      << OtherLine(<<"z",":","\\","d","\\","n",".","m","p","3">>), OtherLine(<<"Z",":","\\","d","\\","y",".","m","p","3",".","m","p","3">>) >> }

(***************************************************************************)
(* Audit-side operations                                                   *)
(***************************************************************************)
AuditInit ==
    /\ songs \in AuditStores
    /\ artists = << <<"M">> >>
    /\ existing_paths = UnloadedSet
    /\ existing_artist_titles = UnloadedMap
    /\ genre_name_to_id = UnloadedMap
    /\ decade_name_to_id = UnloadedMap
    /\ file_paths = <<>>
    /\ candidates = <<>>
    /\ pc = "idle"
    /\ idx = 0
    /\ summary = NewSummary(0)
    /\ processed = 0
    /\ store_calls = <<>>
    /\ progress_callback = FALSE
    /\ progress_calls = <<>>
    /\ artists_at_entry = 0
    /\ probe = NoProbe
    /\ disk \in AuditDisks
    /\ vfs_files = {}
    /\ vfs_is_active = FALSE
    /\ ignore_drive \in BOOLEAN
    /\ audit_out = NoCall

\* VfsService.__init__ with a log path: load_log is called once
LoadLog ==
    /\ vfs_files = {}
    /\ ~vfs_is_active
    /\ \E log \in AuditLogs, failed \in BOOLEAN :
         \E read \in (IF failed THEN 0..Len(log) ELSE {Len(log)}) :
            \E out \in {load_log(log, read, failed)} :
               /\ vfs_files' = out.files
               /\ vfs_is_active' = out.is_active
               /\ audit_out' = [op |-> "load_log", ret |-> out.ret, raised |-> out.raised]
    /\ UNCHANGED <<songs, artists, disk, ignore_drive>>
    /\ UNCHANGED importVars
    /\ UNCHANGED probe

\* AuditService.run_audit
RunAudit ==
    /\ audit_out' = [op |-> "run_audit", raised |-> FALSE, results |-> run_audit(songs)]
    /\ UNCHANGED <<songs, artists, disk, vfs_files, vfs_is_active, ignore_drive>>
    /\ UNCHANGED importVars
    /\ UNCHANGED probe

\* AuditService.find_untracked_files
FindUntracked ==
    /\ \E walked \in SUBSET WalkListing :
         audit_out' = find_untracked_files(scan_files(walked))
    /\ UNCHANGED <<songs, artists, disk, vfs_files, vfs_is_active, ignore_drive>>
    /\ UNCHANGED importVars
    /\ UNCHANGED probe

AuditNext ==
    \/ LoadLog
    \/ RunAudit
    \/ FindUntracked

AuditSpec == AuditInit /\ [][AuditNext]_vars

(***************************************************************************)
(* Direct calls of the pure helpers: taxonomy linkage and normalization    *)
(***************************************************************************)
\* most comma-separated pieces in a genre tag
MaxGenreNames == 4
\* last year of the range of years
MaxYear == 2003
\* longest text handed to the normalization utilities
MaxLen == 3

\* pieces of a genre tag: names of the genre table in several spellings, a
\* name the table lacks, a blank piece
GenrePieces ==
    { <<"R","o","c","k">>, <<" ","P","O","P">>, <<"D","a","n","c","e"," ">>,
      <<"J","a","z","z">>, <<" ">> }

\* the lists of at most n pieces
RECURSIVE PieceLists(_)
PieceLists(n) ==
    IF n = 0 THEN {<<>>}
    ELSE LET shorter == PieceLists(n - 1)
         IN shorter \cup {Append(l, g) : l \in {x \in shorter : Len(x) = n - 1},
                                          g \in GenrePieces}

\* metadata.genre: a comma-separated tag, or None
GenreTags == {JoinWith(l, <<",">>) : l \in PieceLists(MaxGenreNames)} \cup {NoneText}

\* metadata.year: unknown, before 1900, or a year of the range
Years == {0 - 1, 0, 1} \cup (1895..MaxYear)

\* U+0131 LATIN SMALL LETTER DOTLESS I, one character: str.lower() leaves it
\* as it is and str.upper() gives "I"
DotlessI == "U+0131"

TextChars == {"a", "A", "I", DotlessI, "-", " ", "\t", "/"}

\* the texts of at most n characters
RECURSIVE TextsUpTo(_)
TextsUpTo(n) ==
    IF n = 0 THEN {<<>>}
    ELSE LET shorter == TextsUpTo(n - 1)
         IN shorter \cup {Append(t, c) : t \in {x \in shorter : Len(x) = n - 1},
                                          c \in TextChars}

\* arguments of the normalization utilities: a text, or None
Texts == TextsUpTo(MaxLen) \cup {NoneText}

\* most pieces in the stem of a file name
MaxParts == 4

\* pieces of a stem: a word, track numbers, a hyphenated word
StemPieces == { <<"a">>, <<"0","1">>, <<"1",".">>, <<"b","-","c">> }

\* what stands between two pieces: the separator, or a hyphen in more
\* whitespace
StemGlues == { <<" ","-"," ">>, <<" "," ","-","\t">> }

\* the stems of at most n pieces
RECURSIVE StemsUpTo(_)
StemsUpTo(n) ==
    IF n = 1 THEN StemPieces
    ELSE LET shorter == StemsUpTo(n - 1)
             longest == {x \in shorter :
                            Len(SplitOn(Strip(CollapseWs(x)), SEPARATOR)) = n - 1}
         IN shorter \cup {x \o g \o q : x \in longest, g \in StemGlues, q \in StemPieces}

\* file paths: the stems as .mp3 files of a directory, and names with an
\* empty stem, a blank stem, a number of four digits, no directory, no
\* extension, an inner dot
FilePaths ==
    {<<"z",":","\\","d","\\">> \o x \o SingleExt : x \in StemsUpTo(MaxParts)}
    \cup { <<"z",":","\\","d","\\">>, <<"z",":","\\","d","\\"," ",".","m","p","3">>, <<"z",":","\\","d","\\","1","2","3","4"," ","-"," ","a"," ","-"," ","b",".","m","p","3">>, <<"a"," ","-"," ","b",".","m","p","3">>, <<"z",":","/","d","/","a"," ","-"," ","b">>, <<"z",":","\\","d","\\","a"," ","-"," ","b",".","c",".","m","p","3">> }

\* tags of a file: none, or an artist and a title that are each missing,
\* empty, blank or present
TagSets ==
    {NoTags} \cup
    {[artist |-> a, title |-> t, year |-> 1985, genre |-> <<"R","o","c","k">>] :
        a \in {NoneText, <<>>, <<" ">>, <<"M">>, <<" ","M"," ">>},
        t \in {NoneText, <<>>, <<"\t">>, <<"V">>}}

\* files handed to parse
TaggedFiles ==
    {[path |-> q, tags |-> g] : q \in { <<"z",":","\\","d","\\","a"," ","-"," ","b",".","m","p","3">>, <<"z",":","\\","d","\\","c",".","m","p","3">>, <<"z",":","\\","d","\\"," ",".","m","p","3">> }, g \in TagSets}

Probes ==
    {[fn |-> "_resolve_genres", arg |-> g, done |-> FALSE] : g \in GenreTags}
    \cup {[fn |-> "_resolve_decade", arg |-> y, done |-> FALSE] : y \in Years}
    \cup {[fn |-> f, arg |-> t, done |-> FALSE] :
              f \in {"normalize_for_comparison", "normalize_path"}, t \in Texts}
    \cup {[fn |-> "_parse_filename", arg |-> q, done |-> FALSE] : q \in FilePaths}
    \cup {[fn |-> "parse", arg |-> f, done |-> FALSE] : f \in TaggedFiles}

\* a service whose taxonomy maps are loaded, before any preview
PureInit ==
    /\ songs = <<>>
    /\ artists = <<>>
    /\ existing_paths = Loaded({})
    /\ existing_artist_titles = Loaded(EmptyMap)
    /\ genre_name_to_id = Loaded(GenreNameToId)
    /\ decade_name_to_id = Loaded(DecadeNameToId)
    /\ file_paths = <<>>
    /\ candidates = <<>>
    /\ pc = "idle"
    /\ idx = 0
    /\ summary = NewSummary(0)
    /\ processed = 0
    /\ store_calls = <<>>
    /\ progress_callback = FALSE
    /\ progress_calls = <<>>
    /\ artists_at_entry = 0
    /\ AuditOff
    /\ probe \in Probes

\* ImportService._resolve_genres(candidate): candidate.genre_ids
ResolveGenres ==
    /\ probe.fn = "_resolve_genres"
    /\ ~probe.done
    /\ probe' = [fn |-> probe.fn, arg |-> probe.arg, done |-> TRUE,
                 genre_ids |-> _resolve_genres(probe.arg, genre_name_to_id.val)]
    /\ UNCHANGED <<songs, artists>>
    /\ UNCHANGED importVars
    /\ UNCHANGED auditVars

\* ImportService._resolve_decade(candidate): candidate.decade_id
ResolveDecade ==
    /\ probe.fn = "_resolve_decade"
    /\ ~probe.done
    /\ probe' = [fn |-> probe.fn, arg |-> probe.arg, done |-> TRUE,
                 decade_id |-> _resolve_decade(probe.arg, decade_name_to_id.val)]
    /\ UNCHANGED <<songs, artists>>
    /\ UNCHANGED importVars
    /\ UNCHANGED auditVars

\* ImportParser.normalize_for_comparison(text), and the same on its result
NormalizeForComparison ==
    /\ probe.fn = "normalize_for_comparison"
    /\ ~probe.done
    /\ probe' = [fn |-> probe.fn, arg |-> probe.arg, done |-> TRUE,
                 value |-> normalize_for_comparison(probe.arg),
                 again |-> normalize_for_comparison(normalize_for_comparison(probe.arg))]
    /\ UNCHANGED <<songs, artists>>
    /\ UNCHANGED importVars
    /\ UNCHANGED auditVars

\* ImportParser.normalize_path(path), and the same on its result
NormalizePath ==
    /\ probe.fn = "normalize_path"
    /\ ~probe.done
    /\ probe' = [fn |-> probe.fn, arg |-> probe.arg, done |-> TRUE,
                 value |-> normalize_path(probe.arg),
                 again |-> normalize_path(normalize_path(probe.arg))]
    /\ UNCHANGED <<songs, artists>>
    /\ UNCHANGED importVars
    /\ UNCHANGED auditVars

\* ImportParser._parse_filename(filepath)
ParseFilename ==
    /\ probe.fn = "_parse_filename"
    /\ ~probe.done
    /\ probe' = [fn |-> probe.fn, arg |-> probe.arg, done |-> TRUE,
                 metadata |-> _parse_filename(probe.arg)]
    /\ UNCHANGED <<songs, artists>>
    /\ UNCHANGED importVars
    /\ UNCHANGED auditVars

\* ImportParser.parse(filepath) on a file with its tags
Parse ==
    /\ probe.fn = "parse"
    /\ ~probe.done
    /\ probe' = [fn |-> probe.fn, arg |-> probe.arg, done |-> TRUE,
                 metadata |-> parse(probe.arg)]
    /\ UNCHANGED <<songs, artists>>
    /\ UNCHANGED importVars
    /\ UNCHANGED auditVars

PureNext ==
    \/ ResolveGenres
    \/ ResolveDecade
    \/ NormalizeForComparison
    \/ NormalizePath
    \/ ParseFilename
    \/ Parse

PureSpec == PureInit /\ [][PureNext]_vars

(***************************************************************************)
(* execute_import on candidates the caller built itself                    *)
(***************************************************************************)
\* most candidates in a list the caller built
MaxHanded == 2

\* ImportCandidate(...) objects as a caller can build them: the candidates
\* of a preview, and ones with a field the preview would have set missing
\* or out of date
HandedCandidates ==
    LET known == NewCandidate(FileZa.path, parse(FileZa))
        fresh == NewCandidate(FileCmv.path, parse(FileCmv))
        conflict == [known EXCEPT !.status = "CONFLICT", !.existing_song_id = 1,
                                  !.existing_path = RowMV.fldFilename, !.artist_id = 1]
    IN { [known EXCEPT !.artist_id = 1],
         [fresh EXCEPT !.artist_is_new = TRUE],
         ErrorCandidate(FileZa.path),
         [known EXCEPT !.status = "DUPLICATE"],
         conflict,
         [conflict EXCEPT !.user_decision = "skip"],
         [conflict EXCEPT !.user_decision = "merge"],
         [conflict EXCEPT !.user_decision = "import"],
         [conflict EXCEPT !.user_decision = "merge", !.existing_song_id = None,
                          !.existing_path = NoneText],
         [conflict EXCEPT !.user_decision = "import", !.artist_id = None] }

\* the lists of at most n such candidates
RECURSIVE HandedLists(_)
HandedLists(n) ==
    IF n = 0 THEN {<<>>}
    ELSE LET shorter == HandedLists(n - 1)
         IN shorter \cup {Append(l, c) : l \in {x \in shorter : Len(x) = n - 1},
                                          c \in HandedCandidates}

\* a service on one of the inventories, with its path index loaded or not,
\* and a list of candidates about to be handed to execute_import
ExecInit ==
    /\ \E st \in InitStores : songs = st.songs /\ artists = st.artists
    /\ existing_paths \in {UnloadedSet, Loaded(LoadPaths(songs))}
    /\ existing_artist_titles = UnloadedMap
    /\ genre_name_to_id = UnloadedMap
    /\ decade_name_to_id = UnloadedMap
    /\ candidates \in HandedLists(MaxHanded)
    /\ file_paths = [i \in 1..Len(candidates) |-> candidates[i].file_path]
    /\ pc = "handed"
    /\ idx = 0
    /\ summary = NewSummary(0)
    /\ processed = 0
    /\ store_calls = <<>>
    /\ progress_callback = FALSE
    /\ progress_calls = <<>>
    /\ artists_at_entry = 0
    /\ probe = NoProbe
    /\ AuditOff

\* an entry of execute_import that counts only the candidates that are not
\* duplicates in total_files
ExecuteHanded_CountsApproved ==
    /\ pc = "handed"
    /\ summary' = NewSummary(Len(SelectSeq(candidates, LAMBDA c : c.status # "DUPLICATE")))
    /\ processed' = Len(candidates)
    /\ idx' = 1
    /\ pc' = IF Len(candidates) = 0 THEN "done" ELSE "executing"
    /\ store_calls' = <<>>
    /\ progress_callback' \in BOOLEAN
    /\ progress_calls' = <<>>
    /\ artists_at_entry' = Len(artists)
    /\ UNCHANGED <<songs, artists, existing_paths, existing_artist_titles,
                   genre_name_to_id, decade_name_to_id, file_paths, candidates>>
    /\ UNCHANGED auditVars
    /\ UNCHANGED probe

\* ImportService.execute_import(candidates) up to the loop
ExecuteHanded ==
    /\ pc = "handed"
    /\ summary' = NewSummary(Len(candidates))
    /\ processed' = Len(candidates)
    /\ idx' = 1
    /\ pc' = IF Len(candidates) = 0 THEN "done" ELSE "executing"
    /\ store_calls' = <<>>
    /\ progress_callback' \in BOOLEAN
    /\ progress_calls' = <<>>
    /\ artists_at_entry' = Len(artists)
    /\ UNCHANGED <<songs, artists, existing_paths, existing_artist_titles,
                   genre_name_to_id, decade_name_to_id, file_paths, candidates>>
    /\ UNCHANGED auditVars
    /\ UNCHANGED probe

ExecNext ==
    \/ ExecuteHanded
    \/ ExecuteStep
    \/ Finish

ExecSpec == ExecInit /\ [][ExecNext]_vars

(***************************************************************************)
(* Vocabulary of the properties                                            *)
(***************************************************************************)
\* this step is one iteration of the loop of execute_import
IsExecuteStep == pc = "executing" /\ idx' = idx + 1

\* a logged store write that did not succeed
CallFailed(call) ==
    \/ call.ret = Raised
    \/ call.op \in {"insert", "insert_artist"} /\ call.ret = None
    \/ call.op = "update" /\ call.ret = 0

\* the candidate takes the CONFLICT branch with the given decisions
IsConflictWith(candidate, decisions) ==
    candidate.status = "CONFLICT" /\ candidate.user_decision \in decisions

\* the candidate is handled by _create_song
TakesCreatePath(candidate) ==
    \/ candidate.status = "NEW"
    \/ IsConflictWith(candidate, {"import"})

\* the file found under a path
FileAt(path) == CHOOSE f \in Files : f.path = path

\* a preview_import called in the current state gives the file this status
FollowingStatusIs(file, status) ==
    \E cache \in {_load_existing_data(FALSE)} :
       \E candidate \in {_analyze_file(file, artists, cache, FALSE)} :
          candidate.status = status

\* number of results of the summary with one of the given actions
CountActions(actions) ==
    Cardinality({i \in 1..Len(summary.results) : summary.results[i].action \in actions})

(***************************************************************************)
(* C1: a failing candidate (an insert that raises or returns no id, an     *)
(* artist creation that raises or returns no id, a merge update that       *)
(* raises or reports failure) gets exactly one result, with success=false  *)
(* and action "error"; the loop goes on with the next candidate; rows and  *)
(* artists written for earlier candidates stay as they are; and when the   *)
(* batch is done there is one result per candidate, errors counts the      *)
(* error results and successful the created and merged ones.               *)
(***************************************************************************)
C1_Step ==
    IsExecuteStep =>
        LET r == summary'.results[idx]
        IN /\ Len(summary'.results) = idx
           /\ SubSeq(summary'.results, 1, idx - 1) = summary.results
           /\ r.file_path = candidates[idx].file_path
           /\ pc' = (IF idx < Len(candidates) THEN "executing" ELSE "done")
           /\ (\E k \in 1..Len(store_calls') : CallFailed(store_calls'[k])) =>
                /\ r.success = FALSE
                /\ r.action = "error"
                /\ summary'.errors = summary.errors + 1
                /\ summary'.successful = summary.successful
                /\ summary'.skipped = summary.skipped
                /\ Len(songs') >= Len(songs)
                /\ Len(artists') >= Len(artists)
                /\ SubSeq(songs', 1, Len(songs)) = songs
                /\ SubSeq(artists', 1, Len(artists)) = artists

C1_Done ==
    pc = "done" =>
        /\ Len(summary.results) = Len(candidates)
        /\ summary.errors = CountActions({"error"})
        /\ summary.successful = CountActions({"created", "merged"})

C1_FailureIsolated == [][C1_Step]_vars /\ []C1_Done

\* an error result followed by a created one, and one preceded by a created one
C1_Witness ==
    /\ pc = "done"
    /\ \E i, j \in 1..Len(summary.results) :
         /\ i < j
         /\ summary.results[i].action = "error"
         /\ summary.results[j].action = "created"
         /\ Len(songs) >= 1

(***************************************************************************)
(* C2: within one batch, a candidate whose normalized path equals that of  *)
(* an earlier candidate of the batch that was created or merged is         *)
(* skipped as a duplicate (so no second row is inserted for the path).     *)
(***************************************************************************)
C2_SamePathSkipped ==
    \A i, j \in 1..Len(summary.results) :
        ( /\ i < j
          /\ summary.results[i].action \in {"created", "merged"}
          /\ normalize_path(candidates[i].file_path) = normalize_path(candidates[j].file_path) )
        => summary.results[j].action = "skipped"

(***************************************************************************)
(* C3 as stated: once execute_import has created a row for a NEW           *)
(* candidate, the cached path index holds the normalized path of the       *)
(* candidate and a following preview_import gives the path DUPLICATE.      *)
(***************************************************************************)
\* candidate i of the batch was NEW and a row has been created for it
CreatedNew(i) ==
    /\ i \in 1..Len(summary.results)
    /\ candidates[i].status = "NEW"
    /\ summary.results[i].action = "created"

\* the path index holds the path of candidate i and a preview finds it there
PathKnown(i) ==
    /\ normalize_path(candidates[i].file_path) \in existing_paths.val
    /\ FollowingStatusIs(FileAt(candidates[i].file_path), "DUPLICATE")

C3_Original ==
    \A i \in 1..Len(candidates) :
        CreatedNew(i) => (existing_paths.loaded /\ PathKnown(i))

(***************************************************************************)
(* C3 amended: when the path index is loaded at the time execute_import    *)
(* creates a row for a NEW candidate, the index holds the normalized path  *)
(* of the candidate afterwards and a following preview_import gives the    *)
(* path DUPLICATE; and only clear_cache takes a path out of the index.     *)
(***************************************************************************)
C3_State ==
    existing_paths.loaded =>
        \A i \in 1..Len(candidates) : CreatedNew(i) => PathKnown(i)

C3_Step ==
    (existing_paths.loaded /\ existing_paths'.loaded) =>
        existing_paths.val \subseteq existing_paths'.val

C3_CreatedPathCached == []C3_State /\ [][C3_Step]_vars

\* a row was created for a NEW candidate whose path only the index knows
C3_Witness ==
    /\ existing_paths.loaded
    /\ \E i \in 1..Len(candidates) :
         /\ CreatedNew(i)
         /\ PathKnown(i)
         /\ normalize_path(candidates[i].file_path) \notin LoadPaths(songs)

(***************************************************************************)
(* C4: after a successful merge the cached path index holds the            *)
(* normalized new path, and a following preview_import gives that path     *)
(* DUPLICATE.                                                              *)
(***************************************************************************)
C4_MergedPathCached ==
    \A i \in 1..Len(summary.results) :
        summary.results[i].action = "merged" =>
            /\ existing_paths.loaded =>
                 normalize_path(candidates[i].file_path) \in existing_paths.val
            /\ FollowingStatusIs(FileAt(candidates[i].file_path), "DUPLICATE")

(***************************************************************************)
(* C5: a DUPLICATE candidate, and a CONFLICT candidate whose decision is   *)
(* "skip" or unset, causes no write to the store (no insert, no update,    *)
(* no artist creation) and gets exactly one result, with action "skipped"  *)
(* and success=false, counted in skipped and in neither successful nor     *)
(* errors.                                                                 *)
(***************************************************************************)
C5_SkipIsFrameOnly ==
    [][ ( /\ IsExecuteStep
          /\ \/ candidates[idx].status = "DUPLICATE"
             \/ IsConflictWith(candidates[idx], {"skip", NoDecision}) )
        => /\ store_calls' = <<>>
           /\ songs' = songs
           /\ artists' = artists
           /\ existing_paths' = existing_paths
           /\ Len(summary'.results) = Len(summary.results) + 1
           /\ summary'.results[idx].action = "skipped"
           /\ summary'.results[idx].success = FALSE
           /\ summary'.skipped = summary.skipped + 1
           /\ summary'.successful = summary.successful
           /\ summary'.errors = summary.errors
           /\ summary'.conflicts_resolved = summary.conflicts_resolved ]_vars

\* a batch in which a DUPLICATE and an undecided CONFLICT were both skipped
C5_Witness ==
    /\ pc = "done"
    /\ \E i, j \in 1..Len(summary.results) :
         /\ candidates[i].status = "DUPLICATE"
         /\ candidates[i].user_decision = "import"
         /\ summary.results[i].action = "skipped"
         /\ IsConflictWith(candidates[j], {NoDecision})
         /\ summary.results[j].action = "skipped"

(***************************************************************************)
(* C6: a CONFLICT candidate with decision "merge" and a known existing id  *)
(* issues exactly one store write, an update of the existing row whose     *)
(* field set is exactly the path field, set to the path of the candidate;  *)
(* every other field of that row and every other row keep their values,    *)
(* no row is inserted, no artist is created; and when the update reports   *)
(* success the result is "merged" with success=true and song_id the        *)
(* existing id, and conflicts_resolved goes up by one.                     *)
(***************************************************************************)
C6_Step ==
    ( /\ IsExecuteStep
      /\ IsConflictWith(candidates[idx], {"merge"})
      /\ TruthyInt(candidates[idx].existing_song_id) )
    => LET c == candidates[idx]
           id == c.existing_song_id
           r == summary'.results[idx]
       IN /\ Len(store_calls') = 1
          /\ store_calls'[1].op = "update"
          /\ store_calls'[1].arg.id = id
          /\ DOMAIN store_calls'[1].arg.fields = {"fldFilename"}
          /\ store_calls'[1].arg.fields.fldFilename = c.file_path
          /\ Len(songs') = Len(songs)
          /\ artists' = artists
          /\ \A k \in 1..Len(songs) :
               /\ DOMAIN songs'[k] = DOMAIN songs[k]
               /\ \A f \in DOMAIN songs[k] :
                    (k # id \/ f # "fldFilename") => songs'[k][f] = songs[k][f]
          /\ store_calls'[1].ret = 1 =>
               /\ songs'[id].fldFilename = c.file_path
               /\ r.action = "merged"
               /\ r.success = TRUE
               /\ r.song_id = id
               /\ summary'.conflicts_resolved = summary.conflicts_resolved + 1
               /\ summary'.successful = summary.successful + 1

C6_MergeWritesPathOnly == [][C6_Step]_vars

\* a merge has moved the path of the existing row and left its title alone
C6_Witness ==
    \E i \in 1..Len(summary.results) :
        /\ IsConflictWith(candidates[i], {"merge"})
        /\ summary.results[i].action = "merged"
        /\ summary.results[i].song_id = candidates[i].existing_song_id
        /\ songs[candidates[i].existing_song_id].fldFilename = candidates[i].file_path
        /\ candidates[i].existing_path # candidates[i].file_path
        /\ songs[candidates[i].existing_song_id].fldTitle # candidates[i].metadata.title

(***************************************************************************)
(* C7: a CONFLICT candidate with decision "import" issues no update and    *)
(* leaves every existing row, the conflicting one included, as it was;     *)
(* when its store writes succeed a new row is inserted under a new id      *)
(* different from the existing id, and the result is "created" with        *)
(* success=true and that new id.                                           *)
(***************************************************************************)
C7_Step ==
    ( /\ IsExecuteStep
      /\ IsConflictWith(candidates[idx], {"import"}) )
    => LET c == candidates[idx]
           r == summary'.results[idx]
       IN /\ \A k \in 1..Len(store_calls') : store_calls'[k].op # "update"
          /\ Len(songs') >= Len(songs)
          /\ SubSeq(songs', 1, Len(songs)) = songs
          /\ (\A k \in 1..Len(store_calls') : ~CallFailed(store_calls'[k])) =>
               /\ Len(songs') = Len(songs) + 1
               /\ r.action = "created"
               /\ r.success = TRUE
               /\ r.song_id = Len(songs')
               /\ r.song_id # c.existing_song_id
               /\ store_calls'[Len(store_calls')].op = "insert"
               /\ songs'[r.song_id] = store_calls'[Len(store_calls')].arg

C7_ImportCreatesSecondRow == [][C7_Step]_vars

\* a second row stands next to the conflicting one, which is as it was loaded
C7_Witness ==
    \E i \in 1..Len(summary.results) :
        /\ IsConflictWith(candidates[i], {"import"})
        /\ summary.results[i].action = "created"
        /\ summary.results[i].song_id # candidates[i].existing_song_id
        /\ summary.results[i].song_id \in 1..Len(songs)
        /\ songs[candidates[i].existing_song_id].fldFilename = candidates[i].existing_path

(***************************************************************************)
(* C8: for a candidate on the create path with artist_is_new and no        *)
(* artist_id, the artist is written before the row, and the row carries    *)
(* the id that the creation returned; when an artist of exactly that name  *)
(* is already there no artist is written and its id is used; the artist    *)
(* directory never holds two artists of one name.                          *)
(***************************************************************************)
C8_Step ==
    ( /\ IsExecuteStep
      /\ TakesCreatePath(candidates[idx])
      /\ candidates[idx].artist_is_new
      /\ candidates[idx].artist_id = None )
    => LET name == candidates[idx].metadata.artist
           calls == store_calls'
       IN /\ get_by_name(artists, name) # None =>
               /\ artists' = artists
               /\ \A k \in 1..Len(calls) : calls[k].op # "insert_artist"
          /\ get_by_name(artists, name) = None =>
               /\ Len(calls) >= 1
               /\ calls[1].op = "insert_artist"
               /\ calls[1].arg = name
          /\ \A k \in 1..Len(calls) :
               calls[k].op = "insert" =>
                  /\ k = Len(calls)
                  /\ \A h \in 1..Len(calls) : calls[h].op = "insert_artist" =>
                        (h < k /\ calls[k].arg.fldArtistCode = calls[h].ret)
                  /\ calls[k].arg.fldArtistCode # None
                  /\ calls[k].arg.fldArtistCode = get_by_name(artists', name)

C8_NamesUnique ==
    \A i, j \in 1..Len(artists) : artists[i] = artists[j] => i = j

C8_ArtistFirstAndOnce == [][C8_Step]_vars /\ []C8_NamesUnique

\* two rows of one batch were created for one new artist, written once
C8_Witness ==
    \E i, j \in 1..Len(summary.results) :
        /\ i < j
        /\ candidates[i].artist_is_new /\ candidates[i].artist_id = None
        /\ candidates[j].artist_is_new /\ candidates[j].artist_id = None
        /\ candidates[i].metadata.artist = candidates[j].metadata.artist
        /\ summary.results[i].action = "created"
        /\ summary.results[j].action = "created"
        /\ summary.results[i].artist_id = summary.results[j].artist_id
        /\ Len(artists) = 1

(***************************************************************************)
(* C9: preview_import gives every file whose normalized path is in the     *)
(* path index the status DUPLICATE, also when its artist+title key is in   *)
(* the artist+title index, and resolves nothing else for it: no existing   *)
(* id or path, no artist linkage, the default genre and decade ids.        *)
(***************************************************************************)
IsPreviewStep == pc = "idle" /\ pc' = "previewed"

C9_Step ==
    IsPreviewStep =>
        \A i \in 1..Len(candidates') :
            normalize_path(candidates'[i].file_path) \in existing_paths'.val =>
                /\ candidates'[i].status = "DUPLICATE"
                /\ candidates'[i].existing_song_id = None
                /\ candidates'[i].existing_path = NoneText
                /\ candidates'[i].artist_id = None
                /\ candidates'[i].artist_is_new = FALSE
                /\ candidates'[i].genre_ids = <<DEFAULT_GENRE_ID, 0, 0>>
                /\ candidates'[i].decade_id = 0

C9_PathMatchIsDuplicate == [][C9_Step]_vars

\* a previewed file found in both indexes and given DUPLICATE
C9_Witness ==
    /\ pc = "previewed"
    /\ existing_paths.loaded
    /\ existing_artist_titles.loaded
    /\ \E i \in 1..Len(candidates) :
         /\ candidates[i].status = "DUPLICATE"
         /\ candidates[i].file_path # normalize_path(candidates[i].file_path)
         /\ normalize_path(candidates[i].file_path) \in existing_paths.val
         /\ ArtistTitleKey(candidates[i].metadata.artist, candidates[i].metadata.title)
               \in DOMAIN existing_artist_titles.val

(***************************************************************************)
(* C10: preview_import gives a file whose normalized path is not in the    *)
(* path index and whose normalized artist|||title key is in the            *)
(* artist+title index the status CONFLICT, with existing_song_id and       *)
(* existing_path those the index holds under the key, the id being that    *)
(* of a row with the same normalized key; a file in neither index gets     *)
(* NEW with both left unset; and an index loaded by the preview from a     *)
(* fetch that returned rows holds every row under its normalized key,      *)
(* with the id and path of a row of that key.                              *)
(***************************************************************************)
KeyOfFile(path) ==
    LET metadata == parse(FileAt(path))
    IN ArtistTitleKey(metadata.artist, metadata.title)

KeyOfRow(row) ==
    normalize_for_comparison(row.fldArtistName) \o <<"|","|","|">>
        \o normalize_for_comparison(row.fldTitle)

C10_Step ==
    IsPreviewStep =>
        /\ \A i \in 1..Len(candidates') :
             LET c == candidates'[i]
                 key == KeyOfFile(c.file_path)
                 index == existing_artist_titles'.val
             IN normalize_path(c.file_path) \notin existing_paths'.val =>
                  /\ key \in DOMAIN index =>
                       /\ c.status = "CONFLICT"
                       /\ c.existing_song_id = index[key].id
                       /\ c.existing_path = index[key].path
                       /\ c.existing_song_id \in 1..Len(songs)
                       /\ KeyOfRow(songs[c.existing_song_id]) = key
                  /\ key \notin DOMAIN index =>
                       /\ c.status = "NEW"
                       /\ c.existing_song_id = None
                       /\ c.existing_path = NoneText
        /\ (~existing_artist_titles.loaded /\ existing_artist_titles'.val # EmptyMap) =>
             \A k \in 1..Len(songs) :
                LET index == existing_artist_titles'.val
                    key == KeyOfRow(songs[k])
                IN /\ key \in DOMAIN index
                   /\ index[key].id \in 1..Len(songs)
                   /\ KeyOfRow(songs[index[key].id]) = key
                   /\ index[key].path = songs[index[key].id].fldFilename

C11_OneCandidatePerPath ==
    /\ Len(candidates) = Len(file_paths)
    /\ \A i \in 1..Len(file_paths) :
         /\ candidates[i].file_path = file_paths[i]
         /\ candidates[i].status \in {"NEW", "DUPLICATE", "CONFLICT"}

\* a preview whose first file failed in its lookup and whose second did not
C11_Witness ==
    /\ pc = "previewed"
    /\ Len(file_paths) = 2
    /\ candidates[1] = ErrorCandidate(file_paths[1])
    /\ candidates[2].file_path = file_paths[2]
    /\ candidates[2] # ErrorCandidate(file_paths[2])
    /\ candidates[2].metadata.source = "filename"

(***************************************************************************)
(* C12: preview_import writes nothing to the store: rows and artist        *)
(* directory are the same before and after and no write is issued; and a   *)
(* preview_import run again on the same files, with the inventory          *)
(* unchanged, gives every file whose lookups succeeded the same status,    *)
(* existing id and linkage ids.                                            *)
(***************************************************************************)
C12_Step ==
    IsPreviewStep =>
        /\ songs' = songs
        /\ artists' = artists
        /\ store_calls' = <<>>

\* the lookups made for the candidate did not fail
LookupsSucceeded(candidate) ==
    /\ candidate # ErrorCandidate(candidate.file_path)
    /\ candidate.status = "CONFLICT" => (candidate.artist_id # None \/ candidate.artist_is_new)

\* a preview_import run now gives the file of candidate i the same answers
SameAgain(i) ==
    \E cache \in {_load_existing_data(FALSE)} :
       \E again \in {_analyze_file(FileAt(file_paths[i]), artists, cache, FALSE)} :
          /\ again.status = candidates[i].status
          /\ again.existing_song_id = candidates[i].existing_song_id
          /\ again.existing_path = candidates[i].existing_path
          /\ again.artist_id = candidates[i].artist_id
          /\ again.artist_is_new = candidates[i].artist_is_new
          /\ again.genre_ids = candidates[i].genre_ids
          /\ again.decade_id = candidates[i].decade_id

C12_Repeatable ==
    (pc = "previewed" /\ existing_paths.loaded) =>
        \A i \in 1..Len(candidates) : LookupsSucceeded(candidates[i]) => SameAgain(i)

Caches == <<existing_paths, existing_artist_titles, genre_name_to_id, decade_name_to_id>>

\* lower-cased, trimmed names of a taxonomy mapped to their ids
NamesToIds(taxonomy) ==
    LET used == {id \in DOMAIN taxonomy : taxonomy[id] # <<>>}
    IN [name \in {Lower(Strip(taxonomy[id])) : id \in used} |->
           CHOOSE id \in used : Lower(Strip(taxonomy[id])) = name]

C13_Step ==
    /\ \A n \in 1..4 :
         /\ (Caches[n].loaded /\ ~Caches'[n].loaded) =>
               (pc' = pc /\ \A m \in 1..4 : ~Caches'[m].loaded)
         /\ (~Caches[n].loaded /\ Caches'[n].loaded) => IsPreviewStep
         /\ (Caches[n].loaded /\ Caches'[n].loaded /\ n # 1) => Caches'[n] = Caches[n]
    /\ IsPreviewStep =>
         /\ \A n \in 1..4 : Caches'[n].loaded
         /\ existing_paths.loaded => existing_paths' = existing_paths
         /\ ~existing_paths.loaded =>
               existing_paths'.val =
                  {normalize_path(songs[k].fldFilename) :
                      k \in {h \in 1..Len(songs) : songs[h].fldFilename \notin {<<>>, NoneText}}}
         /\ ~existing_artist_titles.loaded =>
               \/ existing_artist_titles'.val = EmptyMap
               \/ /\ DOMAIN existing_artist_titles'.val = {KeyOfRow(songs[k]) : k \in 1..Len(songs)}
                  /\ \A key \in DOMAIN existing_artist_titles'.val :
                       LET entry == existing_artist_titles'.val[key]
                       IN /\ entry.id \in 1..Len(songs)
                          /\ KeyOfRow(songs[entry.id]) = key
                          /\ entry.path = songs[entry.id].fldFilename
         /\ ~genre_name_to_id.loaded => genre_name_to_id'.val = NamesToIds(genre_map)
         /\ ~decade_name_to_id.loaded => decade_name_to_id'.val = NamesToIds(decade_map)

SnapshotHas(path) == Lower(path) \in vfs_files

SameNamePaths(db_path) ==
    {q \in vfs_files : _normalize_string(Basename(q)) = _normalize_string(Basename(db_path))}

ClassOf(row) ==
    IF resolve_path(row.fldFilename) \in disk THEN "found"
    ELSE IF SnapshotHas(row.fldFilename) \/ SnapshotHas(resolve_path(row.fldFilename))
         THEN "virtual"
    ELSE IF SameNamePaths(row.fldFilename) # {} THEN "moved"
    ELSE "missing"

WithPath == {i \in 1..Len(songs) : songs[i].fldFilename # <<>>}

IdsIn(list) == {list[k].id : k \in 1..Len(list)}

AuditDone == audit_out.op = "run_audit"

C14_Agrees(results) ==
    /\ results.found = Cardinality({i \in WithPath : ClassOf(songs[i]) = "found"})
    /\ results.virtual = Cardinality({i \in WithPath : ClassOf(songs[i]) = "virtual"})
    /\ IdsIn(results.moved) = {i \in WithPath : ClassOf(songs[i]) = "moved"}
    /\ IdsIn(results.missing) = {i \in WithPath : ClassOf(songs[i]) = "missing"}
    /\ \A k \in 1..Len(results.moved) :
          results.moved[k].new_paths = SameNamePaths(results.moved[k].db_path)
    /\ results.found + results.virtual + Len(results.moved) + Len(results.missing)
          = Cardinality(WithPath)

C14_Classification == AuditDone => C14_Agrees(audit_out.results)

\* the classification of C14 in the states where the snapshot log was read
\* to its end or not at all
C14_WholeSnapshot ==
    (AuditDone /\ (vfs_is_active \/ vfs_files = {})) => C14_Agrees(audit_out.results)

C14_WholeSnapshot_Witness ==
    /\ AuditDone
    /\ vfs_is_active
    /\ Len(audit_out.results.moved) = 1
    /\ audit_out.results.virtual = 1

(***************************************************************************)
(* C15: find_untracked_files returns exactly the observed file system or   *)
(* snapshot paths whose audit-normalized form differs from the             *)
(* audit-normalized, drive-remapped form of every inventory path: nothing  *)
(* returned normalizes to an inventory path, every observed path that      *)
(* normalizes to none is returned, the result is sorted, and a second run  *)
(* over the same inventory and the same observed paths returns the same    *)
(* list.                                                                   *)
(***************************************************************************)
UntrackedDone == audit_out.op = "find_untracked_files"

InventoryForms ==
    {_normalize_path(resolve_path(songs[i].fldFilename), ignore_drive) : i \in WithPath}

C15_Exact ==
    UntrackedDone =>
        LET res == audit_out.untracked
            observed == audit_out.fs_paths
        IN /\ observed = (IF vfs_is_active THEN vfs_files ELSE observed \cap WalkListing)
           /\ \A k \in 1..Len(res) :
                 /\ res[k] \in observed
                 /\ _normalize_path(res[k], ignore_drive) \notin InventoryForms
           /\ \A q \in observed :
                 _normalize_path(q, ignore_drive) \notin InventoryForms
                    => \E k \in 1..Len(res) : res[k] = q
           /\ \A k \in 1..(Len(res) - 1) : LessText(res[k], res[k + 1])

C15_Repeat ==
    (/\ UntrackedDone
     /\ audit_out'.op = "find_untracked_files"
     /\ audit_out'.fs_paths = audit_out.fs_paths)
        => audit_out' = audit_out

C15_Untracked == []C15_Exact /\ [][C15_Repeat]_vars

C15_Witness ==
    /\ UntrackedDone
    /\ Len(audit_out.untracked) >= 2
    /\ \E q \in audit_out.fs_paths :
          /\ \A k \in 1..Len(audit_out.untracked) : audit_out.untracked[k] # q
          /\ q \notin get_all_paths(songs)

(***************************************************************************)
(* C16: a failure to read the snapshot listing or to walk the base         *)
(* directory never leaves the audit operations as an exception: load_log   *)
(* reports it by returning False and leaves an empty or partial path set,  *)
(* the scan returns an empty or partial list, and run_audit and            *)
(* find_untracked_files still return a result built from what was read.    *)
(***************************************************************************)
PartOfSomeLog == \E log \in AuditLogs : vfs_files \subseteq ReadLog(log, <<>>, {})

C16_Load ==
    audit_out.op = "load_log" =>
        /\ ~audit_out.raised
        /\ audit_out.ret = vfs_is_active
        /\ PartOfSomeLog

C16_Audit ==
    AuditDone =>
        /\ ~audit_out.raised
        /\ audit_out.results.total = Len(songs)
        /\ audit_out.results.found
              = Cardinality({i \in WithPath : resolve_path(songs[i].fldFilename) \in disk})
        /\ audit_out.results.virtual
              = Cardinality({i \in WithPath :
                    /\ resolve_path(songs[i].fldFilename) \notin disk
                    /\ \/ SnapshotHas(songs[i].fldFilename)
                       \/ SnapshotHas(resolve_path(songs[i].fldFilename))})
        /\ audit_out.results.found + audit_out.results.virtual
              + Len(audit_out.results.moved) + Len(audit_out.results.missing)
              = Cardinality(WithPath)

C16_Untracked ==
    UntrackedDone =>
        /\ ~audit_out.raised
        /\ ~vfs_is_active => audit_out.fs_paths \subseteq WalkListing
        /\ \A k \in 1..Len(audit_out.untracked) : audit_out.untracked[k] \in audit_out.fs_paths

C16_FailuresContained == C16_Load /\ C16_Audit /\ C16_Untracked

\* an audit after a load that failed part-way, which counts a record through
\* the part that was read
C16_Witness ==
    /\ AuditDone
    /\ ~vfs_is_active
    /\ vfs_files # {}
    /\ audit_out.results.virtual >= 1

(***************************************************************************)
(* C17: a progress callback given to execute_import over n candidates is   *)
(* invoked exactly n times; the i-th invocation comes after the i-th       *)
(* result was recorded and before candidate i+1 is processed, with the     *)
(* arguments (i, n, action of the i-th result), also when candidate i      *)
(* ended in error.                                                         *)
(***************************************************************************)
InBatch == pc \in {"executing", "done"}

C17_CallsFollowResults ==
    (InBatch /\ progress_callback) =>
        /\ Len(summary.results) = idx - 1
        /\ Len(progress_calls) = Len(summary.results)
        /\ \A i \in 1..Len(progress_calls) :
              progress_calls[i] = [current |-> i, total |-> Len(candidates),
                                   status |-> summary.results[i].action]
        /\ pc = "done" => Len(progress_calls) = Len(candidates)

C17_NoCallbackNoCalls == ~progress_callback => progress_calls = <<>>

C17_ProgressCallback == C17_CallsFollowResults /\ C17_NoCallbackNoCalls

C17_Witness ==
    /\ pc = "done"
    /\ progress_callback
    /\ Len(candidates) = 2
    /\ Len(progress_calls) = 2
    /\ progress_calls[1].status = "error"
    /\ progress_calls[2].status = "created"

(***************************************************************************)
(* C18: genre linkage yields exactly 3 genre ids.  The genre tag is split  *)
(* on commas, each name trimmed and lower-cased; the ids of the names      *)
(* among the first three that are in the genre map fill the slots from the *)
(* first slot on, in the order of the names; a slot left over holds the    *)
(* unclassified id if it is the first and 0 otherwise; names beyond the    *)
(* third are ignored.  (As stated in the claim, each of the first three    *)
(* names has its own slot: C18_Original.)                                  *)
(***************************************************************************)
GenresDone == probe.fn = "_resolve_genres" /\ probe.done

\* the non-blank names of a genre tag, trimmed and lower-cased
GenreNames(tag) ==
    LET pieces == SplitOn(IF tag = NoneText THEN <<>> ELSE tag, <<",">>)
        named == SelectSeq(pieces, LAMBDA g : \E i \in 1..Len(g) : ~IsSpace(g[i]))
    IN [i \in 1..Len(named) |-> Lower(Strip(named[i]))]

SlotDefault(k) == IF k = 1 THEN DEFAULT_GENRE_ID ELSE 0

\* positions among the first three names whose name is in the genre map
MatchedAt(names) == {i \in 1..3 : i <= Len(names) /\ names[i] \in DOMAIN GenreNameToId}

C18_Original ==
    GenresDone =>
        LET names == GenreNames(probe.arg)
        IN /\ Len(probe.genre_ids) = 3
           /\ \A k \in 1..3 :
                 probe.genre_ids[k] = IF k \in MatchedAt(names)
                                      THEN GenreNameToId[names[k]] ELSE SlotDefault(k)

C18_GenreSlots ==
    GenresDone =>
        LET names == GenreNames(probe.arg)
            matched == MatchedAt(names)
        IN /\ Len(probe.genre_ids) = 3
           /\ \A k \in 1..3 :
                 IF k <= Cardinality(matched)
                 THEN \E i \in matched :
                         /\ Cardinality({j \in matched : j < i}) = k - 1
                         /\ probe.genre_ids[k] = GenreNameToId[names[i]]
                 ELSE probe.genre_ids[k] = SlotDefault(k)

\* an unmatched name before a matched one: the matched id moves to slot 1
C18_Witness ==
    /\ GenresDone
    /\ Len(GenreNames(probe.arg)) = 3
    /\ MatchedAt(GenreNames(probe.arg)) = {2, 3}
    /\ probe.genre_ids[3] = 0
    /\ probe.genre_ids[1] # DEFAULT_GENRE_ID

(***************************************************************************)
(* C19: decade linkage.  For a year >= 1900 the decade id is the id the    *)
(* decade table gives, letter case aside, to the name made of              *)
(* (year // 10) * 10 and "'s" (1985 -> "1980's"), or 0 when the table has  *)
(* no such name; for a year < 1900, 0 (unknown) included, it is 0.         *)
(***************************************************************************)
DecadeDone == probe.fn = "_resolve_decade" /\ probe.done

DecadeName(year) == IntToText(year - (year % 10)) \o <<"'", "s">>

\* ids of the decade table whose name is the given one, letter case aside
DecadeIdsNamed(name) ==
    {i \in DOMAIN decade_map : i > 0 /\ Lower(decade_map[i]) = Lower(name)}

C19_Decade ==
    DecadeDone =>
        IF probe.arg >= 1900
        THEN IF DecadeIdsNamed(DecadeName(probe.arg)) # {}
             THEN probe.decade_id \in DecadeIdsNamed(DecadeName(probe.arg))
             ELSE probe.decade_id = 0
        ELSE probe.decade_id = 0

\* 1985 is linked to the row named "1980'S"
C19_Witness ==
    /\ DecadeDone
    /\ probe.arg = 1985
    /\ probe.decade_id = 2

(***************************************************************************)
(* C20: normalize_for_comparison and normalize_path give the same value    *)
(* when applied to their own result, give the same value for two inputs    *)
(* that differ only in letter case, and give the empty string for the      *)
(* empty string and for None; normalize_for_comparison removes no hyphen   *)
(* and no other non-whitespace character, so two texts that differ in such *)
(* a character, letter case aside, never get the same value.               *)
(***************************************************************************)
ComparisonDone == probe.fn = "normalize_for_comparison" /\ probe.done
PathDone == probe.fn = "normalize_path" /\ probe.done
NormalizeDone == ComparisonDone \/ PathDone

\* str.upper() on one character; two texts differ only in letter case when
\* they are equal after it
UpperOf(c) ==
    IF c = DotlessI THEN "I"
    ELSE IF \E i \in 1..Len(LowerChars) : LowerChars[i] = c
    THEN UpperChars[CHOOSE i \in 1..Len(LowerChars) : LowerChars[i] = c]
    ELSE c

UpperText(s) == [i \in 1..Len(s) |-> UpperOf(s[i])]

\* the characters of a text that are not whitespace, letter case aside
Inked(text) == UpperText(SelectSeq(text, LAMBDA c : ~IsSpace(c)))

C20_Idempotent == NormalizeDone => probe.again = probe.value

C20_EmptyAndNone ==
    (NormalizeDone /\ probe.arg \in {<<>>, NoneText}) => probe.value = <<>>

\* every text gets the value of its upper-case form, hence of every text
\* that differs from it in letter case only
C20_CaseInsensitive ==
    /\ (ComparisonDone /\ probe.arg # NoneText) =>
          probe.value = normalize_for_comparison(UpperText(probe.arg))
    /\ (PathDone /\ probe.arg # NoneText) =>
          probe.value = normalize_path(UpperText(probe.arg))

\* the value keeps the non-whitespace characters of the text, hence two
\* texts that differ in one of them get different values
C20_KeepsInk ==
    (ComparisonDone /\ probe.arg # NoneText) => Inked(probe.value) = Inked(probe.arg)

C20_Normalization ==
    C20_Idempotent /\ C20_EmptyAndNone /\ C20_CaseInsensitive /\ C20_KeepsInk

\* the parts of C20 other than letter case, and letter case for the texts
\* made of the letters str.lower() maps to the lower-case form of their
\* upper-case form
C20_AsideFromDotlessI ==
    /\ C20_Idempotent
    /\ C20_EmptyAndNone
    /\ C20_KeepsInk
    /\ (NormalizeDone /\ probe.arg # NoneText
           /\ \A i \in 1..Len(probe.arg) : probe.arg[i] # DotlessI)
          => probe.value = (IF ComparisonDone
                            THEN normalize_for_comparison(UpperText(probe.arg))
                            ELSE normalize_path(UpperText(probe.arg)))

(***************************************************************************)
(* C21: file name parsing splits the name without its extension, with      *)
(* whitespace collapsed, on the exact separator " - ".  2 parts: artist,   *)
(* title.  3 or more parts: when part 1 is a track number (1 to 3 digits,  *)
(* a period allowed after them) it is dropped, part 2 is the artist and    *)
(* the rest, rejoined with the separator, the title; otherwise part 1 is   *)
(* the artist and the last part the title.  1 part: the whole name is the  *)
(* title, or the fallback title when the name is empty, and the artist is  *)
(* the fallback.  A hyphen without spaces around it never splits.  (As     *)
(* stated in the claim, 1 part gives the whole name as title always:       *)
(* C21_Original.)                                                          *)
(***************************************************************************)
ParseFilenameDone == probe.fn = "_parse_filename" /\ probe.done

CleanName(path) == Strip(CollapseWs(SplitExtRoot(Basename(path))))

NameParts(path) == SplitOn(CleanName(path), SEPARATOR)

\* 1 to 3 digits, a period allowed after them
LooksLikeTrackNo(t) ==
    \E k \in 1..3 :
        /\ Len(t) \in {k, k + 1}
        /\ \A i \in 1..k : IsDigit(t[i])
        /\ Len(t) = k + 1 => t[k + 1] = "."

ArtistByRule(parts) ==
    IF Len(parts) = 1 THEN fallback_artist
    ELSE IF Len(parts) >= 3 /\ LooksLikeTrackNo(parts[1]) THEN parts[2]
    ELSE parts[1]

TitleByRule(parts) ==
    IF Len(parts) = 1 THEN parts[1]
    ELSE IF Len(parts) >= 3 /\ LooksLikeTrackNo(parts[1])
    THEN JoinWith(SubSeq(parts, 3, Len(parts)), SEPARATOR)
    ELSE parts[Len(parts)]

\* the number of places where the separator stands in the name
SeparatorPlaces(name) ==
    {i \in 1..(Len(name) - 2) : SubSeq(name, i, i + 2) = SEPARATOR}

C21_Original ==
    ParseFilenameDone =>
        /\ probe.metadata.artist = ArtistByRule(NameParts(probe.arg))
        /\ probe.metadata.title = TitleByRule(NameParts(probe.arg))

C21_FilenameParsing ==
    ParseFilenameDone =>
        /\ probe.metadata.artist = ArtistByRule(NameParts(probe.arg))
        /\ probe.metadata.title = IF CleanName(probe.arg) = <<>> THEN fallback_title
                                  ELSE TitleByRule(NameParts(probe.arg))
        /\ probe.metadata.source = "filename"
        /\ SeparatorPlaces(CleanName(probe.arg)) = {} =>
              /\ probe.metadata.artist = fallback_artist
              /\ CleanName(probe.arg) # <<>> => probe.metadata.title = CleanName(probe.arg)

\* a track number, an artist and a title that holds the separator
C21_Witness ==
    /\ ParseFilenameDone
    /\ Len(NameParts(probe.arg)) = 4
    /\ LooksLikeTrackNo(NameParts(probe.arg)[1])
    /\ probe.metadata.artist = NameParts(probe.arg)[2]
    /\ SeparatorPlaces(probe.metadata.title) # {}

(***************************************************************************)
(* C22: parse gives the tags priority over the file name.  When the tags   *)
(* carry a non-blank artist or title, each of artist and title is the      *)
(* trimmed tag when that is non-blank and the one parsed from the file     *)
(* name otherwise, and the source is the tags; when there are no tags or   *)
(* both are blank, the result is the record parsed from the file name,     *)
(* source included.  Artist and title are never empty.                     *)
(***************************************************************************)
ParseDone == probe.fn = "parse" /\ probe.done

\* the tag as text, trimmed; empty when missing
TagText(tag) == IF tag = NoneText THEN <<>> ELSE Strip(tag)

TagsSpeak(tags) ==
    /\ tags # NoTags
    /\ TagText(tags.artist) # <<>> \/ TagText(tags.title) # <<>>

C22_TagPriority ==
    ParseDone =>
        LET tags == probe.arg.tags
            from_name == _parse_filename(probe.arg.path)
            meta == probe.metadata
        IN /\ TagsSpeak(tags) =>
                /\ meta.artist = IF TagText(tags.artist) # <<>> THEN TagText(tags.artist)
                                 ELSE from_name.artist
                /\ meta.title = IF TagText(tags.title) # <<>> THEN TagText(tags.title)
                                ELSE from_name.title
                /\ meta.source = "id3"
           /\ ~TagsSpeak(tags) => meta = from_name /\ meta.source = "filename"
           /\ meta.artist \notin {<<>>, NoneText}
           /\ meta.title \notin {<<>>, NoneText}

\* a title tag without an artist tag: the artist comes from the file name
C22_Witness ==
    /\ ParseDone
    /\ probe.arg.tags # NoTags
    /\ TagText(probe.arg.tags.artist) = <<>>
    /\ probe.metadata.title = <<"V">>
    /\ probe.metadata.artist = <<"a">>
    /\ probe.metadata.source = "id3"

(***************************************************************************)
(* C23: every path the executor writes to the inventory, as the path of an *)
(* inserted record or as the new path of a merged record, is the file path *)
(* of the candidate with the drive mapping reversed; a record created for  *)
(* a CONFLICT candidate with decision "import" stores the path of the new  *)
(* file, not the path of the existing record.                              *)
(***************************************************************************)
\* the candidate the last iteration of execute_import handled
LastHandled == candidates[idx - 1]

StepTaken == pc \in {"executing", "done"} /\ idx > 1

StoredForm(candidate) == ReverseDriveMap(candidate.file_path, drive_map)

C23_InsertedPaths ==
    StepTaken =>
        \A k \in 1..Len(store_calls) :
            store_calls[k].op = "insert" =>
                store_calls[k].arg.fldFilename = StoredForm(LastHandled)

C23_MergedPaths ==
    StepTaken =>
        \A k \in 1..Len(store_calls) :
            store_calls[k].op = "update" =>
                store_calls[k].arg.fields.fldFilename = StoredForm(LastHandled)

C23_WrittenPaths == C23_InsertedPaths /\ C23_MergedPaths

(***************************************************************************)
(* C24: run_audit accounts for every inventory record: found + virtual +   *)
(* the number of moved entries + the number of missing entries = total,    *)
(* records with an empty stored path included.                             *)
(***************************************************************************)
Classified(results) ==
    results.found + results.virtual + Len(results.moved) + Len(results.missing)

C24_AllAccounted == AuditDone => Classified(audit_out.results) = audit_out.results.total

\* what holds instead: the records with an empty stored path are in total
\* and in no class
C24_PathlessLeftOut ==
    AuditDone =>
        /\ audit_out.results.total = Len(songs)
        /\ Classified(audit_out.results) = Len(songs) - Cardinality((1..Len(songs)) \ WithPath)

(***************************************************************************)
(* C25: a CONFLICT candidate with decision "merge" and no existing id gets *)
(* an "error" result, no update and no insert is issued to the store, and  *)
(* the batch goes on with the next candidate.                              *)
(***************************************************************************)
MergeWithoutId(candidate) ==
    /\ IsConflictWith(candidate, {"merge"})
    /\ ~TruthyInt(candidate.existing_song_id)

C25_Step ==
    (IsExecuteStep /\ MergeWithoutId(candidates[idx])) =>
        /\ Len(summary'.results) = idx
        /\ summary'.results[idx].action = "error"
        /\ ~summary'.results[idx].success
        /\ summary'.results[idx].file_path = candidates[idx].file_path
        /\ store_calls' = <<>>
        /\ songs' = songs
        /\ artists' = artists
        /\ pc' = IF idx < Len(candidates) THEN "executing" ELSE "done"

C25_MergeWithoutId == [][C25_Step]_vars

\* the candidate after a merge without id has been handled
C25_Witness ==
    /\ pc = "done"
    /\ Len(candidates) = 2
    /\ MergeWithoutId(candidates[1])
    /\ summary.results[1].action = "error"
    /\ summary.results[2].action = "created"

(***************************************************************************)
(* C26: after execute_import created a record with artist A and title T, a *)
(* following preview_import on the same service (no clear_cache) of a file *)
(* at another path, whose artist and title give the same artist|||title    *)
(* key, is CONFLICT and not NEW.                                           *)
(***************************************************************************)
\* the file has the key of the candidate, another path than the candidate,
\* and a path the inventory does not hold
SameSongElsewhere(file, candidate) ==
    /\ ArtistTitleKey(parse(file).artist, parse(file).title) =
         ArtistTitleKey(candidate.metadata.artist, candidate.metadata.title)
    /\ normalize_path(file.path) # normalize_path(candidate.file_path)
    /\ normalize_path(file.path) \notin LoadPaths(songs)

C26_CreatedIsIndexed ==
    \A i \in 1..Len(summary.results) :
        summary.results[i].action = "created" =>
            \A file \in Files :
                SameSongElsewhere(file, candidates[i]) =>
                    FollowingStatusIs(file, "CONFLICT")

\* what the code does: a loaded artist+title index never points to a record
\* created in the batch
C26_IndexIsStale ==
    \A i \in 1..Len(summary.results) :
        (summary.results[i].action = "created" /\ existing_artist_titles.loaded) =>
            \A k \in DOMAIN existing_artist_titles.val :
                existing_artist_titles.val[k].id # summary.results[i].song_id

(***************************************************************************)
(* C27: after execute_import over any list of n candidates, whatever their *)
(* statuses, decisions and store failures: total_files = n; results has n  *)
(* entries and the i-th one carries the file path of the i-th candidate;   *)
(* every action is created, merged, skipped or error; successful + skipped *)
(* + errors = n, and successful counts the created and merged results.     *)
(***************************************************************************)
ResultActions == {"created", "merged", "skipped", "error"}

\* while the loop runs, the same holds of the candidates handled so far
C27_SoFar ==
    pc \in {"executing", "done"} =>
        /\ summary.total_files = Len(candidates)
        /\ Len(summary.results) = idx - 1
        /\ \A i \in 1..Len(summary.results) :
              /\ summary.results[i].file_path = candidates[i].file_path
              /\ summary.results[i].action \in ResultActions
        /\ summary.successful + summary.skipped + summary.errors = Len(summary.results)
        /\ summary.successful = CountActions({"created", "merged"})

C27_AtReturn ==
    pc = "done" => Len(summary.results) = Len(candidates)

C27_SummaryAccounts == C27_SoFar /\ C27_AtReturn

\* a batch with a created, and one with a skipped and a failed candidate
C27_Witness ==
    /\ pc = "done"
    /\ Len(candidates) = 2
    /\ summary.results[1].action = "skipped"
    /\ summary.results[2].action = "error"
    /\ summary.skipped = 1
    /\ summary.errors = 1

(***************************************************************************)
(* C28: after execute_import, new_artists_created is the number of artist  *)
(* records added to the artist directory during the batch, also when       *)
(* several candidates share one new artist name or the artist came into    *)
(* existence after the preview.                                            *)
(***************************************************************************)
ArtistsAdded == Len(artists) - artists_at_entry

C28_CountsAddedArtists ==
    pc = "done" => summary.new_artists_created = ArtistsAdded

\* what the code counts: the created results of the candidates whose
\* preview found no artist
C28_CountsCreatedResults ==
    pc \in {"executing", "done"} =>
        summary.new_artists_created =
            Cardinality({i \in 1..Len(summary.results) :
                            /\ candidates[i].artist_is_new
                            /\ summary.results[i].action = "created"})

\* two created records under one new artist: one artist added, two counted
C28_SharedNameCountedTwice ==
    /\ pc = "done"
    /\ ArtistsAdded = 1
    /\ summary.new_artists_created = 2

(***************************************************************************)
(* C29: every record execute_import inserts into the inventory carries an  *)
(* artist id that is not null and is the id of an artist of the directory, *)
(* for every candidate a preview can produce (the one of a failed analysis *)
(* and a CONFLICT whose comparison fetch failed, imported, included).      *)
(***************************************************************************)
\* the step inserted a record
Inserted == IsExecuteStep /\ Len(songs') = Len(songs) + 1

C29_Step ==
    Inserted => songs'[Len(songs')].fldArtistCode \in 1..Len(artists')

C29_InsertedHasArtist == [][C29_Step]_vars

\* what the code does: the inserted record carries the id the candidate
\* came with, or the one ArtistService.create gave for a new artist
C29_CarriesCandidateId ==
    [][ Inserted =>
          LET code == songs'[Len(songs')].fldArtistCode
          IN IF candidates[idx].artist_id = None /\ candidates[idx].artist_is_new
             THEN code \in 1..Len(artists')
             ELSE code = candidates[idx].artist_id ]_vars

\* a record without artist id, inserted for the candidate of a failed analysis
C29_NullArtistInserted ==
    /\ StepTaken
    /\ LastHandled.metadata = ErrorCandidate(LastHandled.file_path).metadata
    /\ LastHandled.artist_id = None
    /\ songs # <<>>
    /\ songs[Len(songs)].fldArtistCode = None
    /\ summary.results[idx - 1].action = "created"

(***************************************************************************)
(* C30: run_audit and find_untracked_files agree on one inventory and      *)
(* snapshot: no path returned by find_untracked_files is the path through  *)
(* which run_audit counts a record as found or virtual, whether the        *)
(* snapshot file is matched by the stored path or by the remapped one.     *)
(***************************************************************************)
\* run_audit counts the row found through the file at path
FoundThrough(row, path) ==
    LET file_info == get_file_info(row.fldFilename)
    IN file_info.exists /\ path = file_info.resolved_path

\* run_audit counts the row virtual through the snapshot entry path, matched
\* by the stored path
VirtualByStored(row, path) ==
    /\ get_file_info(row.fldFilename).vfs_status = "virtual"
    /\ path \in vfs_files
    /\ path = Lower(row.fldFilename)

\* the same, matched by the remapped path
VirtualByRemapped(row, path) ==
    /\ get_file_info(row.fldFilename).vfs_status = "virtual"
    /\ path \in vfs_files
    /\ path = Lower(resolve_path(row.fldFilename))

Reported == {audit_out.untracked[k] : k \in 1..Len(audit_out.untracked)}

C30_AuditAndUntrackedAgree ==
    UntrackedDone =>
        \A path \in Reported, i \in WithPath :
            /\ ~FoundThrough(songs[i], path)
            /\ ~VirtualByStored(songs[i], path)
            /\ ~VirtualByRemapped(songs[i], path)

\* what the code does: the two agree on the files matched by the remapped
\* path, and on all of them when the drive is ignored
C30_AgreeOnRemapped ==
    UntrackedDone =>
        \A path \in Reported, i \in WithPath :
            /\ ~FoundThrough(songs[i], path)
            /\ ~VirtualByRemapped(songs[i], path)
            /\ ignore_drive => ~VirtualByStored(songs[i], path)

\* a snapshot entry that makes a record virtual by its stored path is
\* reported as untracked
C30_VirtualReported ==
    /\ UntrackedDone
    /\ vfs_is_active
    /\ \E path \in Reported, i \in WithPath : VirtualByStored(songs[i], path)

====
